---- MODULE Spec2Model ----
(***************************************************************************)
(* Streaming technical-analysis indicators (crate `indicator`) and the     *)
(* combinator layer built over them: Map, Composition, Together, Diff,     *)
(* Mature, Window, Identity, Constant.                                     *)
(*                                                                         *)
(* An indicator is a record whose fields are the fields of the Rust        *)
(* struct plus a `kind` tag; `Next`, `Current` and `Reset` dispatch on the *)
(* tag the way the trait impls are selected by type.  `Next` returns the   *)
(* pair [s |-> state after the call, o |-> value returned].                *)
(*                                                                         *)
(* f64 values are exact rationals <<n, d>> in lowest terms with d > 0;     *)
(* d = 0 encodes the IEEE specials: <<0,0>> NaN, <<1,0>> +inf, <<-1,0>>    *)
(* -inf.  Rounding error of binary floating point is not represented.      *)
(* Option<T> is a sequence of length 0 (None) or 1 (Some).                 *)
(***************************************************************************)
EXTENDS Integers, Sequences, FiniteSets

\* ------------------------------------------------------------------ bounds
MaxIn == 2        \* inputs are drawn from 0..MaxIn
MaxSteps == 3     \* advances per run (between construction/reset and reset)
MaxResets == 1    \* resets per behaviour
ExSteps == 6      \* advances per run in the worked examples
MaxPeriod == 2    \* constructors are called with periods 0..MaxPeriod

\* ------------------------------------------------------------- f64 values
Abs(x) == IF x < 0 THEN -x ELSE x
Sign(x) == IF x < 0 THEN -1 ELSE IF x > 0 THEN 1 ELSE 0

RECURSIVE Gcd(_, _)
Gcd(a, b) == IF b = 0 THEN a ELSE Gcd(b, a % b)

\* n/d in lowest terms, d >= 0
Norm(n, d) ==
    LET red(g) == <<n \div g, d \div g>>
    IN IF d = 0 THEN <<Sign(n), 0>> ELSE red(Gcd(n, d))

F(k) == <<k, 1>>
NaN == <<0, 0>>
IsNaN(a) == a[1] = 0 /\ a[2] = 0

\* A value <<n, d>> is computed exactly; a value <<n, d, p>> is one of a
\* binary floating-point format with p bits of mantissa, and an operation
\* with such an operand rounds its result to p bits, to nearest, ties to
\* even, as every f64 operation does with 53 bits (the exponent range is
\* not limited).  Round(a, d, hi, u, v) is (a/d rounded to p bits) * u/v for
\* a, d > 0 and hi = 2^p, as a pair not yet in lowest terms: a/d is scaled
\* by two into [2^(p-1), 2^p) first, u/v undoing it.
RECURSIVE Round(_, _, _, _, _)
Round(a, d, hi, u, v) ==
    IF a >= d * hi THEN Round(a, 2 * d, hi, 2 * u, v)
    ELSE IF 2 * a < d * hi THEN Round(2 * a, d, hi, u, 2 * v)
    ELSE <<u * ((a \div d) + (IF 2 * (a % d) + ((a \div d) % 2) > d THEN 1 ELSE 0)), v>>

\* the result r of an operation on a and b, in the format of its operands
\* (p = 0: of no format, nothing is rounded)
Fl(a, b, r) ==
    LET fin(m, p) == Norm(Sign(r[1]) * m[1], m[2]) \o (IF p = 0 THEN <<>> ELSE <<p>>)
        fmt(n, p) == fin(IF p = 0 \/ n = 0 THEN <<n, r[2]>> ELSE Round(n, r[2], 2^p, 1, 1), p)
    IN fmt(Abs(r[1]), IF Len(a) = 3 THEN a[3] ELSE IF Len(b) = 3 THEN b[3] ELSE 0)

fneg(a) == [a EXCEPT ![1] = -a[1]]

fadd(a, b) ==
    IF IsNaN(a) \/ IsNaN(b) THEN NaN
    ELSE IF a[2] = 0 /\ b[2] = 0 THEN (IF a[1] = b[1] THEN a ELSE NaN)
    ELSE IF a[2] = 0 THEN a
    ELSE IF b[2] = 0 THEN b
    ELSE Fl(a, b, <<a[1] * b[2] + b[1] * a[2], a[2] * b[2]>>)

fsub(a, b) == fadd(a, fneg(b))

fmul(a, b) ==
    IF IsNaN(a) \/ IsNaN(b) THEN NaN
    ELSE IF a[2] = 0 \/ b[2] = 0
         THEN (IF a[1] = 0 \/ b[1] = 0 THEN NaN ELSE <<Sign(a[1]) * Sign(b[1]), 0>>)
    ELSE Fl(a, b, <<a[1] * b[1], a[2] * b[2]>>)

fdiv(a, b) ==
    IF IsNaN(a) \/ IsNaN(b) THEN NaN
    ELSE IF b[2] = 0 THEN (IF a[2] = 0 THEN NaN ELSE F(0))
    ELSE IF b[1] = 0 THEN (IF a[1] = 0 THEN NaN ELSE <<Sign(a[1]), 0>>)
    ELSE IF a[2] = 0 THEN <<Sign(a[1]) * Sign(b[1]), 0>>
    ELSE Fl(a, b, <<Sign(b[1]) * a[1] * b[2], Sign(b[1]) * a[2] * b[1]>>)

\* IEEE comparisons: every comparison with NaN is false
flt(a, b) ==
    IF IsNaN(a) \/ IsNaN(b) THEN FALSE
    ELSE IF a[2] = 0 /\ b[2] = 0 THEN a[1] < b[1]
    ELSE IF a[2] = 0 THEN a[1] < 0
    ELSE IF b[2] = 0 THEN b[1] > 0
    ELSE a[1] * b[2] < b[1] * a[2]

feq(a, b) == ~IsNaN(a) /\ ~IsNaN(b) /\ a[1] = b[1] /\ a[2] = b[2]
fle(a, b) == flt(a, b) \/ feq(a, b)

\* f64::max / f64::min: a NaN operand is ignored
fmax(a, b) == IF IsNaN(a) THEN b ELSE IF IsNaN(b) THEN a ELSE IF flt(a, b) THEN b ELSE a
fmin(a, b) == IF IsNaN(a) THEN b ELSE IF IsNaN(b) THEN a ELSE IF flt(b, a) THEN b ELSE a

\* ----------------------------------------------------------------- Option
None == <<>>
Some(v) == <<v>>
IsSome(o) == Len(o) = 1
IsNone(o) == Len(o) = 0

\* f64::sqrt on the rational n/d = sqrt(n*d)/d, the integer root truncated to
\* a 1/100 grid when n*d is not a perfect square
RECURSIVE Isqrt(_, _, _)
Isqrt(m, lo, hi) ==
    IF lo >= hi THEN lo
    ELSE LET mid == (lo + hi + 1) \div 2
         IN IF mid * mid <= m THEN Isqrt(m, mid, hi) ELSE Isqrt(m, lo, mid - 1)

fsqrt(a) ==
    IF IsNaN(a) THEN NaN
    ELSE IF a[2] = 0 THEN (IF a[1] > 0 THEN a ELSE NaN)
    ELSE IF a[1] < 0 THEN NaN
    ELSE LET m == a[1] * a[2]
             r == Isqrt(m, 0, m)
         IN IF r * r = m THEN Norm(r, a[2])
            ELSE Norm(Isqrt(m * 10000, 0, (r + 1) * 100), a[2] * 100)

\* ---------------------------------------------------------------- VecDeque
\* a ring pre-filled with n copies of the first input
Fill(n, v) == [i \in 1..n |-> v]

RECURSIVE SeqMax(_)
SeqMax(s) == IF Len(s) = 1 THEN s[1] ELSE fmax(SeqMax(SubSeq(s, 1, Len(s) - 1)), s[Len(s)])

RECURSIVE SeqMin(_)
SeqMin(s) == IF Len(s) = 1 THEN s[1] ELSE fmin(SeqMin(SubSeq(s, 1, Len(s) - 1)), s[Len(s)])

\* ===================================================================== Sma
\* error.rs: Result<T> is either the constructed value (Ok) or an Error; an
\* Error is a record of kind "Err" holding the variant and its fields
\* (InvalidUintRange for a usize parameter, InvalidFloatRange for an f64 one)
InvalidRangeError(error, name, value, min) ==
    [kind |-> "Err", error |-> error,
     param |-> [name |-> name, value |-> value], range |-> [min |-> min]]
InvalidRelation(operator, lhs, rhs) ==
    [kind |-> "Err", error |-> "InvalidRelation", operator |-> operator,
     lhs |-> lhs, rhs |-> rhs]
IsErr(r) == r.kind = "Err"

Sma_new(period) ==
    IF period < 1 THEN InvalidRangeError("InvalidUintRange", "period", period, 1)
    ELSE [kind |-> "Sma", period |-> period, ring |-> <<>>, sum |-> None]

Sma_current(self) ==
    IF IsSome(self.sum) THEN Some(fdiv(self.sum[1], F(self.period))) ELSE None

\* mutant: the ring is pre-filled with zeros before the first input
Sma_next_zero(self, input) ==
    LET ret(s1) == [s |-> s1, o |-> Sma_current(s1)[1]]
    IN ret(IF IsSome(self.sum)
              THEN [self EXCEPT !.ring = Append(Tail(@), input),
                                !.sum = Some(fadd(fsub(self.sum[1], Head(self.ring)), input))]
              ELSE [self EXCEPT !.ring = Append(Fill(self.period - 1, F(0)), input),
                                !.sum = Some(input)])

Sma_next(self, input) ==
    LET ret(s1) == [s |-> s1, o |-> Sma_current(s1)[1]]
    IN ret(IF IsSome(self.sum)
              THEN [self EXCEPT !.ring = Append(Tail(@), input),
                                !.sum = Some(fadd(fsub(self.sum[1], Head(self.ring)), input))]
              ELSE [self EXCEPT !.ring = Fill(self.period, input),
                                !.sum = Some(fmul(input, F(self.period)))])

\* mutant: reset leaves the running sum in place
Sma_reset_keep(self) == [self EXCEPT !.ring = <<>>]

Sma_reset(self) == [self EXCEPT !.ring = <<>>, !.sum = None]

\* ===================================================================== Ema
Ema_new(period) ==
    IF period < 1 THEN InvalidRangeError("InvalidUintRange", "period", period, 1)
    ELSE [kind |-> "Ema", period |-> period, current |-> None]

Ema_current(self) == self.current

Ema_next(self, input) ==
    LET ret(s1) == [s |-> s1, o |-> Ema_current(s1)[1]]
    IN ret(IF IsSome(self.current)
              THEN [self EXCEPT !.current =
                        Some(fadd(@[1], fmul(fsub(input, @[1]), fdiv(F(2), F(self.period + 1)))))]
              ELSE [self EXCEPT !.current = Some(input)])

Ema_reset(self) == [self EXCEPT !.current = None]

\* ===================================================================== Rma
\* mutant: Rma accepts period 1
Rma_new_min1(period) ==
    IF period < 1 THEN InvalidRangeError("InvalidUintRange", "period", period, 1)
    ELSE [kind |-> "Rma", period |-> period, current |-> None]

Rma_new(period) ==
    IF period < 2 THEN InvalidRangeError("InvalidUintRange", "period", period, 2)
    ELSE [kind |-> "Rma", period |-> period, current |-> None]

Rma_current(self) == self.current

Rma_next(self, input) ==
    LET ret(s1) == [s |-> s1, o |-> Rma_current(s1)[1]]
    IN ret(IF IsSome(self.current)
              THEN [self EXCEPT !.current =
                        Some(fadd(@[1], fdiv(fsub(input, @[1]), F(self.period))))]
              ELSE [self EXCEPT !.current = Some(input)])

Rma_reset(self) == [self EXCEPT !.current = None]

\* ===================================================================== Rsi
Rsi_new(period) ==
    LET up == Rma_new(period)
        down == Rma_new(period)
    IN IF IsErr(up) THEN up
       ELSE IF IsErr(down) THEN down
       ELSE [kind |-> "Rsi", up |-> up, down |-> down, prev_input |-> None]

\* mutant: without the arm that reports 0.5 when both averages are zero
Rsi_current_noneutral(self) ==
    LET u == Rma_current(self.up)
        d == Rma_current(self.down)
    IN IF IsSome(u) /\ IsSome(d)
       THEN LET up == u[1]
                down == d[1]
            IN Some(IF fle(up, F(0)) THEN F(0)
                    ELSE IF fle(down, F(0)) THEN F(1)
                    ELSE fdiv(F(1), fadd(F(1), fdiv(down, up))))
       ELSE None

Rsi_current(self) ==
    LET u == Rma_current(self.up)
        d == Rma_current(self.down)
    IN IF IsSome(u) /\ IsSome(d)
       THEN LET up == u[1]
                down == d[1]
            IN Some(IF fle(up, F(0)) /\ fle(down, F(0)) THEN <<1, 2>>
                    ELSE IF fle(up, F(0)) THEN F(0)
                    ELSE IF fle(down, F(0)) THEN F(1)
                    ELSE fdiv(F(1), fadd(F(1), fdiv(down, up))))
       ELSE None

Rsi_next(self, input) ==
    LET ret(s1) == [s |-> s1, o |-> Rsi_current(s1)[1]]
    IN ret(IF IsSome(self.prev_input)
              THEN LET change == fsub(input, self.prev_input[1])
                   IN [self EXCEPT !.up = Rma_next(@, fmax(change, F(0))).s,
                                   !.down = Rma_next(@, fmax(fneg(change), F(0))).s,
                                   !.prev_input = Some(input)]
              ELSE [self EXCEPT !.up = Rma_next(@, F(0)).s,
                                !.down = Rma_next(@, F(0)).s,
                                !.prev_input = Some(input)])

Rsi_reset(self) ==
    [self EXCEPT !.up = Rma_reset(@), !.down = Rma_reset(@), !.prev_input = None]

\* ===================================================================== Max
Max_new(period) ==
    IF period < 1 THEN InvalidRangeError("InvalidUintRange", "period", period, 1)
    ELSE [kind |-> "Max", period |-> period, ring |-> <<>>, current |-> None]

Max_current(self) == self.current

\* mutant: the maximum is kept when the element it came from is evicted
Max_next_stale(self, input) ==
    LET ret(s1) == [s |-> s1, o |-> Max_current(s1)[1]]
    IN ret(IF IsSome(self.current)
              THEN [self EXCEPT !.ring = Append(Tail(self.ring), input),
                                !.current = IF fle(self.current[1], input)
                                            THEN Some(input) ELSE @]
              ELSE [self EXCEPT !.ring = Fill(self.period, input), !.current = Some(input)])

Max_next(self, input) ==
    LET ret(s1) == [s |-> s1, o |-> Max_current(s1)[1]]
    IN ret(IF IsSome(self.current)
              THEN LET max == self.current[1]
                       old_val == Head(self.ring)
                       ring1 == Append(Tail(self.ring), input)
                   IN [self EXCEPT !.ring = ring1,
                                   !.current =
                                       IF fle(max, input) THEN Some(input)
                                       ELSE IF feq(max, old_val) THEN Some(SeqMax(ring1))
                                       ELSE @]
              ELSE [self EXCEPT !.ring = Fill(self.period, input), !.current = Some(input)])

Max_reset(self) == [self EXCEPT !.ring = <<>>, !.current = None]

\* ===================================================================== Min
Min_new(period) ==
    IF period < 1 THEN InvalidRangeError("InvalidUintRange", "period", period, 1)
    ELSE [kind |-> "Min", period |-> period, ring |-> <<>>, current |-> None]

Min_current(self) == self.current

Min_next(self, input) ==
    LET ret(s1) == [s |-> s1, o |-> Min_current(s1)[1]]
    IN ret(IF IsSome(self.current)
              THEN LET min == self.current[1]
                       old_val == Head(self.ring)
                       ring1 == Append(Tail(self.ring), input)
                   IN [self EXCEPT !.ring = ring1,
                                   !.current =
                                       IF fle(input, min) THEN Some(input)
                                       ELSE IF feq(min, old_val) THEN Some(SeqMin(ring1))
                                       ELSE @]
              ELSE [self EXCEPT !.ring = Fill(self.period, input), !.current = Some(input)])

Min_reset(self) == [self EXCEPT !.ring = <<>>, !.current = None]

\* ================================================================ MaxIndex
\* ring[1] is the front of the VecDeque (the newest input), Rust index i is
\* ring[i + 1]
\* a panic: the call does not return, and what it was called on is not used
\* again
Panic == [kind |-> "Panic"]

MaxIndex_new(period) ==
    IF period < 1 THEN InvalidRangeError("InvalidUintRange", "period", period, 1)
    ELSE [kind |-> "MaxIndex", period |-> period, ring |-> <<>>, current |-> None]

MaxIndex_current(self) == self.current

RECURSIVE MaxIndex_scan(_, _, _)
MaxIndex_scan(ring, max_index, index) ==
    IF index >= Len(ring) THEN max_index
    ELSE MaxIndex_scan(ring,
                       IF flt(ring[max_index + 1], ring[index + 1]) THEN index ELSE max_index,
                       index + 1)

\* `self.ring[*max_index]` panics when max_index is not below the length
MaxIndex_next(self, input) ==
    LET ret(s1) == [s |-> s1, o |-> MaxIndex_current(s1)[1]]
    IN IF IsSome(self.current) /\ self.current[1] >= Len(self.ring)
       THEN [s |-> Panic, o |-> Panic]
       ELSE
       ret(IF IsSome(self.current)
              THEN LET max_index == self.current[1]
                       max == self.ring[max_index + 1]
                       old_value == self.ring[Len(self.ring)]
                       ring1 == <<input>> \o SubSeq(self.ring, 1, Len(self.ring) - 1)
                   IN [self EXCEPT !.ring = ring1,
                                   !.current =
                                       IF fle(max, input) THEN Some(0)
                                       ELSE IF feq(max, old_value)
                                            THEN Some(MaxIndex_scan(ring1, max_index, 0))
                                       ELSE Some(max_index + 1)]
              ELSE [self EXCEPT !.ring = Fill(self.period, input), !.current = Some(0)])

MaxIndex_reset(self) == [self EXCEPT !.ring = <<>>, !.current = None]

\* ================================================================ MinIndex
MinIndex_new(period) ==
    IF period < 1 THEN InvalidRangeError("InvalidUintRange", "period", period, 1)
    ELSE [kind |-> "MinIndex", period |-> period, ring |-> <<>>, current |-> None]

MinIndex_current(self) == self.current

RECURSIVE MinIndex_scan(_, _, _)
MinIndex_scan(ring, min_index, index) ==
    IF index >= Len(ring) THEN min_index
    ELSE MinIndex_scan(ring,
                       IF flt(ring[index + 1], ring[min_index + 1]) THEN index ELSE min_index,
                       index + 1)

\* `self.ring[*min_index]` panics when min_index is not below the length
MinIndex_next(self, input) ==
    LET ret(s1) == [s |-> s1, o |-> MinIndex_current(s1)[1]]
    IN IF IsSome(self.current) /\ self.current[1] >= Len(self.ring)
       THEN [s |-> Panic, o |-> Panic]
       ELSE
       ret(IF IsSome(self.current)
              THEN LET min_index == self.current[1]
                       min == self.ring[min_index + 1]
                       old_value == self.ring[Len(self.ring)]
                       ring1 == <<input>> \o SubSeq(self.ring, 1, Len(self.ring) - 1)
                   IN [self EXCEPT !.ring = ring1,
                                   !.current =
                                       IF fle(input, min) THEN Some(0)
                                       ELSE IF feq(min, old_value)
                                            THEN Some(MinIndex_scan(ring1, min_index, 0))
                                       ELSE Some(min_index + 1)]
              ELSE [self EXCEPT !.ring = Fill(self.period, input), !.current = Some(0)])

MinIndex_reset(self) == [self EXCEPT !.ring = <<>>, !.current = None]

\* ======================================================= StandardDeviation
\* mean_sse is Option<(mean, sse)>
StandardDeviation_new(period) ==
    IF period < 1 THEN InvalidRangeError("InvalidUintRange", "period", period, 1)
    ELSE [kind |-> "StandardDeviation", period |-> period, ring |-> <<>>, mean_sse |-> None]

StandardDeviation_current(self) ==
    IF IsSome(self.mean_sse)
    THEN Some([mean |-> self.mean_sse[1][1],
               sd |-> fsqrt(fdiv(self.mean_sse[1][2], F(self.period)))])
    ELSE None

StandardDeviation_next(self, input) ==
    LET ret(s1) == [s |-> s1, o |-> StandardDeviation_current(s1)[1]]
    IN ret(IF IsSome(self.mean_sse)
              THEN LET old_input == Head(self.ring)
                       delta == fsub(input, old_input)
                       old_mean == self.mean_sse[1][1]
                       mean == fadd(old_mean, fdiv(delta, F(self.period)))
                       delta2 == fsub(fadd(fsub(input, mean), old_input), old_mean)
                       sse == fadd(self.mean_sse[1][2], fmul(delta, delta2))
                   IN [self EXCEPT !.ring = Append(Tail(@), input),
                                   !.mean_sse = Some(<<mean, sse>>)]
              ELSE [self EXCEPT !.ring = Fill(self.period, input),
                                !.mean_sse = Some(<<input, F(0)>>)])

StandardDeviation_reset(self) == [self EXCEPT !.ring = <<>>, !.mean_sse = None]

\* =========================================================== BolingerBands
BolingerBands_new(period, multiplier) ==
    LET sd == StandardDeviation_new(period)
    IN IF IsErr(sd) THEN sd
       ELSE IF flt(multiplier, F(0)) THEN InvalidRangeError("InvalidFloatRange", "multiplier", multiplier, F(0))
       ELSE [kind |-> "BolingerBands", sd |-> sd, multiplier |-> multiplier]

BolingerBands_current(self) ==
    LET bands(x) == [average |-> x.mean,
                     upper_bound |-> fadd(x.mean, fmul(x.sd, self.multiplier)),
                     lower_bound |-> fsub(x.mean, fmul(x.sd, self.multiplier))]
        map(c) == IF IsSome(c) THEN Some(bands(c[1])) ELSE None
    IN map(StandardDeviation_current(self.sd))

BolingerBands_next(self, input) ==
    LET ret(s1) == [s |-> s1, o |-> BolingerBands_current(s1)[1]]
    IN ret([self EXCEPT !.sd = StandardDeviation_next(@, input).s])

BolingerBands_reset(self) == [self EXCEPT !.sd = StandardDeviation_reset(@)]

\* ==================================================================== Vwap
\* the input is the pair <<price, volume>>
Vwap_new == [kind |-> "Vwap", current |-> None, total_volume |-> F(0)]

Vwap_current(self) == self.current

Vwap_next(self, input) ==
    LET price == input[1]
        volume == input[2]
        ret(s1) == [s |-> s1, o |-> Vwap_current(s1)[1]]
        upd(total_volume) ==
            IF IsSome(self.current)
            THEN [self EXCEPT !.total_volume = total_volume,
                              !.current = Some(fadd(@[1],
                                  fdiv(fmul(fsub(price, @[1]), volume), total_volume)))]
            ELSE [self EXCEPT !.total_volume = total_volume, !.current = Some(price)]
    IN ret(upd(fadd(self.total_volume, volume)))

\* mutant: the accumulated volume outlives the reset
Vwap_reset_volume(self) == [self EXCEPT !.current = None]

Vwap_reset(self) == [self EXCEPT !.current = None, !.total_volume = F(0)]

\* ==================================================================== Vwma
\* ring holds <<price, volume>> pairs, sum is Option<(sum, total_volume)>
Vwma_new(period) ==
    IF period < 1 THEN InvalidRangeError("InvalidUintRange", "period", period, 1)
    ELSE [kind |-> "Vwma", period |-> period, ring |-> <<>>, sum |-> None]

Vwma_current(self) ==
    IF IsSome(self.sum) THEN Some(fdiv(self.sum[1][1], self.sum[1][2])) ELSE None

Vwma_next(self, input) ==
    LET price == input[1]
        volume == input[2]
        ret(s1) == [s |-> s1, o |-> Vwma_current(s1)[1]]
    IN ret(IF IsSome(self.sum)
              THEN LET old_price == Head(self.ring)[1]
                       old_volume == Head(self.ring)[2]
                       sum == fadd(fsub(self.sum[1][1], fmul(old_price, old_volume)),
                                   fmul(price, volume))
                       total_volume == fadd(fsub(self.sum[1][2], old_volume), volume)
                   IN [self EXCEPT !.ring = Append(Tail(@), <<price, volume>>),
                                   !.sum = Some(<<sum, total_volume>>)]
              ELSE [self EXCEPT !.ring = Fill(self.period, <<price, volume>>),
                                !.sum = Some(<<fmul(fmul(price, volume), F(self.period)),
                                               fmul(volume, F(self.period))>>)])

Vwma_reset(self) == [self EXCEPT !.ring = <<>>, !.sum = None]

\* ============================================================= Stochastics
Stochastics_new(n_period, m_period, x_period) ==
    LET min == Min_new(n_period)
        max == Max_new(n_period)
        d_numerator == Sma_new(m_period)
        d_denominator == Sma_new(m_period)
        slow_d == Sma_new(x_period)
    IN IF IsErr(min) THEN min
       ELSE IF IsErr(max) THEN max
       ELSE IF IsErr(d_numerator) THEN d_numerator
       ELSE IF IsErr(d_denominator) THEN d_denominator
       ELSE IF IsErr(slow_d) THEN slow_d
       ELSE [kind |-> "Stochastics", min |-> min, max |-> max,
             d_numerator |-> d_numerator, d_denominator |-> d_denominator,
             slow_d |-> slow_d, current |-> None]

Stochastics_current(self) == self.current

Stochastics_next(self, input) ==
    LET ret(s1) == [s |-> s1, o |-> Stochastics_current(s1)[1]]
        slow(s0, k, d, sd) ==
            [s0 EXCEPT !.slow_d = sd.s, !.current = Some([k |-> k, d |-> d, slow_d |-> sd.o])]
        fast(s0, k, d) == slow(s0, k, d, Sma_next(self.slow_d, d))
        ratio(s0, k, dn, dd) ==
            fast([s0 EXCEPT !.d_numerator = dn.s, !.d_denominator = dd.s], k,
                 IF feq(dd.o, F(0)) THEN <<1, 2>> ELSE fdiv(dn.o, dd.o))
        range(s0, min, max) ==
            IF IsSome(self.current)
            THEN ratio(s0,
                       IF feq(min, max) THEN <<1, 2>>
                       ELSE fdiv(fsub(input, min), fsub(max, min)),
                       Sma_next(self.d_numerator, fsub(input, min)),
                       Sma_next(self.d_denominator, fsub(max, min)))
            ELSE [s0 EXCEPT !.d_numerator = Sma_next(@, F(0)).s,
                            !.d_denominator = Sma_next(@, F(0)).s,
                            !.slow_d = Sma_next(@, F(0)).s,
                            !.current = Some([k |-> <<1, 2>>, d |-> <<1, 2>>,
                                              slow_d |-> <<1, 2>>])]
        extremes(mn, mx) == range([self EXCEPT !.min = mn.s, !.max = mx.s], mn.o, mx.o)
    IN ret(extremes(Min_next(self.min, input), Max_next(self.max, input)))

Stochastics_reset(self) ==
    [self EXCEPT !.min = Min_reset(@), !.max = Max_reset(@),
                 !.d_numerator = Sma_reset(@), !.d_denominator = Sma_reset(@),
                 !.slow_d = Sma_reset(@), !.current = None]

\* ========================================================== AroonIndicator
AroonIndicator_new(period) ==
    LET min_index == MinIndex_new(period + 1)
        max_index == MaxIndex_new(period + 1)
    IN IF period < 1 THEN InvalidRangeError("InvalidUintRange", "period", period, 1)
       ELSE IF IsErr(min_index) THEN min_index
       ELSE IF IsErr(max_index) THEN max_index
       ELSE [kind |-> "AroonIndicator", period |-> period,
             max_index |-> max_index, min_index |-> min_index,
             overflow_checks |-> FALSE]

\* `period - index` is a usize subtraction.  Below zero it panics in a build
\* with overflow checks (field overflow_checks, a property of the build that
\* the constructor does not choose: the tables list both builds where the
\* subtraction can go below zero) and wraps modulo 2^w otherwise.  w is 16
\* here, the narrowest usize there is: as f64 the wrapped value is near 2^w
\* for every w, and 2^32 and 2^64 are beyond the model checker's integers.
\* A call that panics returns nothing: Panic stands where its value would be.
AroonIndicator_current(self) ==
    LET sub(a, b) == (a - b) % 65536
        aroon(mn, mx) ==
            IF IsSome(mn) /\ IsSome(mx)
            THEN IF self.overflow_checks /\ (self.period < mx[1] \/ self.period < mn[1])
                 THEN Some(Panic)
                 ELSE Some([aroon_up |-> fdiv(F(sub(self.period, mx[1])), F(self.period)),
                            aroon_down |-> fdiv(F(sub(self.period, mn[1])), F(self.period))])
            ELSE None
    IN aroon(MinIndex_current(self.min_index), MaxIndex_current(self.max_index))

AroonIndicator_next(self, input) ==
    LET ret(s1, c) ==
            IF c = Some(Panic) THEN [s |-> Panic, o |-> Panic] ELSE [s |-> s1, o |-> c[1]]
        read(s1) == ret(s1, AroonIndicator_current(s1))
        indices(mn, mx) ==
            IF mn = Panic \/ mx = Panic THEN [s |-> Panic, o |-> Panic]
            ELSE read([self EXCEPT !.min_index = mn, !.max_index = mx])
    IN indices(MinIndex_next(self.min_index, input).s, MaxIndex_next(self.max_index, input).s)

AroonIndicator_reset(self) ==
    [self EXCEPT !.min_index = MinIndex_reset(@), !.max_index = MaxIndex_reset(@)]

\* ========================================================= AroonOscillator
AroonOscillator_new(period) ==
    LET aroon_indicator == AroonIndicator_new(period)
    IN IF IsErr(aroon_indicator) THEN aroon_indicator
       ELSE [kind |-> "AroonOscillator", aroon_indicator |-> aroon_indicator]

AroonOscillator_current(self) ==
    LET diff(c) ==
            IF c = Some(Panic) THEN c
            ELSE IF IsSome(c) THEN Some(fsub(c[1].aroon_up, c[1].aroon_down)) ELSE None
    IN diff(AroonIndicator_current(self.aroon_indicator))

AroonOscillator_next(self, input) ==
    LET ret(s1) == [s |-> s1, o |-> AroonOscillator_current(s1)[1]]
        inner(a) ==
            IF a = Panic THEN [s |-> Panic, o |-> Panic]
            ELSE ret([self EXCEPT !.aroon_indicator = a])
    IN inner(AroonIndicator_next(self.aroon_indicator, input).s)

AroonOscillator_reset(self) == [self EXCEPT !.aroon_indicator = AroonIndicator_reset(@)]

\* ======================================================= trait dispatch
\* Next::next, Current::current and Reset::reset of whatever indicator `self`
\* is; the definitions follow the combinators that call them on children
RECURSIVE Next(_, _)
RECURSIVE Current(_)
RECURSIVE Reset(_)

\* ================================================================ Identity
\* f0 is the tuple struct's only field
Identity_new == [kind |-> "Identity", f0 |-> None]

\* mutant: only the first input is remembered
Identity_next_first(self, input) ==
    [s |-> [self EXCEPT !.f0 = IF IsSome(@) THEN @ ELSE Some(input)], o |-> input]

Identity_next(self, input) == [s |-> [self EXCEPT !.f0 = Some(input)], o |-> input]

Identity_current(self) == self.f0

Identity_reset(self) == [self EXCEPT !.f0 = None]

\* ================================================================ Constant
Constant_from(t) == [kind |-> "Constant", f0 |-> t]

Constant_next(self, input) == [s |-> self, o |-> Some(self.f0)]

Constant_current(self) == Some(self.f0)

Constant_reset(self) == self

\* ===================================================================== Map
\* f is the name of a pure projection; ApplyF is its call
ApplyF(f, x) ==
    CASE f = "square" -> fmul(x, x)
      [] f = "macd" -> x.macd
      [] f = "sd" -> x.sd
      [] f = "k" -> x.k
      [] f = "aroon_up" -> x.aroon_up
      [] f = "upper_bound" -> x.upper_bound
      [] f = "succ" -> x + 1
      [] f = "first" -> x[1]

Map_new(i, f) == [kind |-> "Map", i |-> i, f |-> f]

Map_current(self) ==
    LET c == Current(self.i)
    IN IF IsSome(c) THEN Some(ApplyF(self.f, c[1])) ELSE None

\* mutant: the child's output is returned unmapped
Map_next_raw(self, input) ==
    LET r == Next(self.i, input)
    IN [s |-> [self EXCEPT !.i = r.s], o |-> r.o]

Map_next(self, input) ==
    LET r == Next(self.i, input)
    IN [s |-> [self EXCEPT !.i = r.s], o |-> ApplyF(self.f, r.o)]

Map_reset(self) == [self EXCEPT !.i = Reset(@)]

\* ============================================================= Composition
\* mutant: the children are stored in the opposite roles
Composition_new_swap(inner, outer) == [kind |-> "Composition", inner |-> outer, outer |-> inner]

Composition_new(inner, outer) == [kind |-> "Composition", inner |-> inner, outer |-> outer]

\* mutant: the inner child is advanced twice per call
Composition_next_twice(self, input) ==
    LET ri == Next(Next(self.inner, input).s, input)
        ro == Next(self.outer, ri.o)
    IN [s |-> [self EXCEPT !.inner = ri.s, !.outer = ro.s], o |-> ro.o]

Composition_next(self, input) ==
    LET ri == Next(self.inner, input)
        ro == Next(self.outer, ri.o)
    IN [s |-> [self EXCEPT !.inner = ri.s, !.outer = ro.s], o |-> ro.o]

\* mutant: the inner child's value is exposed
Composition_current_inner(self) == Current(self.inner)

Composition_current(self) == Current(self.outer)

\* mutant: only the outer child is reset
Composition_reset_outer(self) == [self EXCEPT !.outer = Reset(@)]

Composition_reset(self) == [self EXCEPT !.inner = Reset(@), !.outer = Reset(@)]

\* IndicatorExt::pushforward / pullback
\* mutant: self becomes the inner child
pushforward_inner(self, inner) == Composition_new(self, inner)

pushforward(self, inner) == Composition_new(inner, self)
pullback(self, outer) == Composition_new(self, outer)

\* ================================================================ Together
Together_new(lhs, rhs) == [kind |-> "Together", lhs |-> lhs, rhs |-> rhs]

\* mutant: the right child is advanced twice per call
Together_next_twice(self, input) ==
    LET rl == Next(self.lhs, input)
        rr == Next(Next(self.rhs, input).s, input)
    IN [s |-> [self EXCEPT !.lhs = rl.s, !.rhs = rr.s], o |-> <<rl.o, rr.o>>]

Together_next(self, input) ==
    LET rl == Next(self.lhs, input)
        rr == Next(self.rhs, input)
    IN [s |-> [self EXCEPT !.lhs = rl.s, !.rhs = rr.s], o |-> <<rl.o, rr.o>>]

\* mutant: only the left child has to hold a value
Together_current_lhs(self) ==
    LET l == Current(self.lhs)
        r == Current(self.rhs)
    IN IF IsSome(l) THEN Some(<<l[1], r>>) ELSE None

Together_current(self) ==
    LET l == Current(self.lhs)
        r == Current(self.rhs)
    IN IF IsSome(l) /\ IsSome(r) THEN Some(<<l[1], r[1]>>) ELSE None

Together_reset(self) == [self EXCEPT !.lhs = Reset(@), !.rhs = Reset(@)]

\* ==================================================================== Diff
\* the input is the pair <<input_l, input_r>>
Diff_new(lhs, rhs) == [kind |-> "Diff", lhs |-> lhs, rhs |-> rhs]

\* mutant: the two components of the input are delivered crosswise
Diff_next_cross(self, input) ==
    LET rl == Next(self.lhs, input[2])
        rr == Next(self.rhs, input[1])
    IN [s |-> [self EXCEPT !.lhs = rl.s, !.rhs = rr.s], o |-> fsub(rl.o, rr.o)]

Diff_next(self, input) ==
    LET rl == Next(self.lhs, input[1])
        rr == Next(self.rhs, input[2])
    IN [s |-> [self EXCEPT !.lhs = rl.s, !.rhs = rr.s], o |-> fsub(rl.o, rr.o)]

Diff_current(self) ==
    LET l == Current(self.lhs)
        r == Current(self.rhs)
    IN IF IsSome(l) /\ IsSome(r) THEN Some(fsub(l[1], r[1])) ELSE None

Diff_reset(self) == [self EXCEPT !.lhs = Reset(@), !.rhs = Reset(@)]

\* ================================================================== Mature
\* mutant: the counter starts at period instead of period + 1
Mature_new_cnt(i, period) == [kind |-> "Mature", i |-> i, period |-> period, cnt |-> period]

Mature_new(i, period) == [kind |-> "Mature", i |-> i, period |-> period, cnt |-> period + 1]

\* mutant: the child is not advanced while the output is suppressed
Mature_next_skip(self, input) ==
    LET r == Next(self.i, input)
    IN IF self.cnt <= 1
       THEN [s |-> [self EXCEPT !.i = r.s, !.cnt = 0], o |-> Some(r.o)]
       ELSE [s |-> [self EXCEPT !.cnt = @ - 1], o |-> None]

\* mutant: the threshold is cnt <= 0
Mature_next_le0(self, input) ==
    LET r == Next(self.i, input)
    IN IF self.cnt <= 0
       THEN [s |-> [self EXCEPT !.i = r.s, !.cnt = 0], o |-> Some(r.o)]
       ELSE [s |-> [self EXCEPT !.i = r.s, !.cnt = @ - 1], o |-> None]

\* mutant: the counter is left at 1 when the output is let through
Mature_next_keep(self, input) ==
    LET r == Next(self.i, input)
    IN IF self.cnt <= 1
       THEN [s |-> [self EXCEPT !.i = r.s], o |-> Some(r.o)]
       ELSE [s |-> [self EXCEPT !.i = r.s, !.cnt = @ - 1], o |-> None]

Mature_next(self, input) ==
    LET r == Next(self.i, input)
    IN IF self.cnt <= 1
       THEN [s |-> [self EXCEPT !.i = r.s, !.cnt = 0], o |-> Some(r.o)]
       ELSE [s |-> [self EXCEPT !.i = r.s, !.cnt = @ - 1], o |-> None]

\* mutant: current() passes the child's value through one advance early
Mature_current_le1(self) == IF self.cnt <= 1 THEN Some(Current(self.i)) ELSE None

\* Option<Option<I::Output>>: `.into()` wraps the child's Option in Some
Mature_current(self) == IF self.cnt <= 0 THEN Some(Current(self.i)) ELSE None

\* mutant: the counter is not restored
Mature_reset_cnt(self) == [self EXCEPT !.i = Reset(@)]

\* mutant: the counter is restored but the child is not reset
Mature_reset_child(self) == [self EXCEPT !.cnt = self.period + 1]

Mature_reset(self) == [self EXCEPT !.i = Reset(@), !.cnt = self.period + 1]

\* ================================================================== Window
\* ring is the VecDeque: `slots` its storage of window_size cells, `head` the
\* cell (1-based) of the front element, `len` the number of elements.  buf
\* holds references into the storage: the number of the cell referred to, 0
\* for the zeroed reference of Window::new.
NullRef == 0
Uninit == <<"uninit">>

VecDeque_with_capacity(n) == [slots |-> Fill(n, Uninit), head |-> 1, len |-> 0]
VecDeque_cell(ring, i) == ((ring.head - 1 + i) % Len(ring.slots)) + 1
VecDeque_pop_front(ring) ==
    [ring EXCEPT !.head = (@ % Len(ring.slots)) + 1, !.len = @ - 1]
VecDeque_push_back(ring, v) ==
    [ring EXCEPT !.slots[VecDeque_cell(ring, ring.len)] = v, !.len = @ + 1]
VecDeque_clear(ring) == [ring EXCEPT !.head = 1, !.len = 0]

Window_new(inner, window_size) ==
    [kind |-> "Window", inner |-> inner, window_size |-> window_size,
     ring |-> VecDeque_with_capacity(window_size),
     buf |-> Fill(window_size, NullRef), is_first |-> TRUE]

\* mutant: a full ring is viewed newest first
Window_update_window_rev(self) ==
    LET n == self.window_size - self.ring.len
    IN [self EXCEPT !.buf =
            [i \in 1..self.window_size |->
                IF n = 0 THEN VecDeque_cell(self.ring, self.window_size - i)
                ELSE IF i - 1 <= n THEN VecDeque_cell(self.ring, 0)
                ELSE VecDeque_cell(self.ring, i - 1 - n)]]

\* mutant: the leading slots are filled with the newest element
Window_update_window_pad(self) ==
    LET n == self.window_size - self.ring.len
    IN [self EXCEPT !.buf =
            [i \in 1..self.window_size |->
                IF n = 0 THEN VecDeque_cell(self.ring, i - 1)
                ELSE IF i - 1 <= n THEN VecDeque_cell(self.ring, self.ring.len - 1)
                ELSE VecDeque_cell(self.ring, i - 1 - n)]]

Window_update_window(self) ==
    LET n == self.window_size - self.ring.len
    IN [self EXCEPT !.buf =
            [i \in 1..self.window_size |->
                IF n = 0 THEN VecDeque_cell(self.ring, i - 1)
                ELSE IF i - 1 <= n THEN VecDeque_cell(self.ring, 0)
                ELSE VecDeque_cell(self.ring, i - 1 - n)]]

\* the slice of references, read through
Window_window(self) == [i \in 1..Len(self.buf) |-> self.ring.slots[self.buf[i]]]

\* A view handed out earlier, read now.  The slice was made from a raw
\* pointer with the lifetime 'a, which the borrow of self does not bound, so
\* it can be kept across next and reset, which write buf through &mut self:
\* a read through it is undefined, and a build returns either what buf
\* holds now or what it read through the view before (seen).
Window_held(self, seen) == {seen, Window_window(self)}

Window_next(self, input) ==
    LET r == Next(self.inner, input)
        s0 == [self EXCEPT !.inner = r.s]
        ring1 == IF self.window_size <= self.ring.len
                 THEN VecDeque_pop_front(self.ring) ELSE self.ring
        s1 == IF 0 < self.window_size
              THEN Window_update_window([s0 EXCEPT !.ring = VecDeque_push_back(ring1, r.o)])
              ELSE s0
        s2 == [s1 EXCEPT !.is_first = FALSE]
    IN [s |-> s2, o |-> Window_window(s2)]

Window_current(self) == IF self.is_first THEN None ELSE Some(Window_window(self))

\* mutant: is_first is left as it was
Window_reset_first(self) == [self EXCEPT !.inner = Reset(@), !.ring = VecDeque_clear(@)]

\* mutant: the ring is not cleared
Window_reset_ring(self) == [self EXCEPT !.inner = Reset(@), !.is_first = TRUE]

Window_reset(self) ==
    [self EXCEPT !.inner = Reset(@), !.ring = VecDeque_clear(@), !.is_first = TRUE]

\* ==================================================================== Macd
\* mutant: the children are constructed before the periods are compared
Macd_new_children(short_period, long_period, signal_period) ==
    LET short == Ema_new(short_period)
        long == Ema_new(long_period)
        signal == Sma_new(signal_period)
    IN IF IsErr(short) THEN short
       ELSE IF IsErr(long) THEN long
       ELSE IF IsErr(signal) THEN signal
       ELSE IF ~(short_period < long_period)
       THEN InvalidRelation("<", [name |-> "short_period", value |-> short_period],
                                 [name |-> "long_period", value |-> long_period])
       ELSE [kind |-> "Macd", macd |-> Diff_new(short, long), signal |-> signal]

Macd_new(short_period, long_period, signal_period) ==
    LET short == Ema_new(short_period)
        long == Ema_new(long_period)
        signal == Sma_new(signal_period)
    IN IF ~(short_period < long_period)
       THEN InvalidRelation("<", [name |-> "short_period", value |-> short_period],
                                 [name |-> "long_period", value |-> long_period])
       ELSE IF IsErr(short) THEN short
       ELSE IF IsErr(long) THEN long
       ELSE IF IsErr(signal) THEN signal
       ELSE [kind |-> "Macd", macd |-> Diff_new(short, long), signal |-> signal]

Macd_current(self) ==
    LET zip(m, g) ==
            IF IsSome(m) /\ IsSome(g)
            THEN Some([macd |-> m[1], signal |-> g[1], histogram |-> fsub(m[1], g[1])])
            ELSE None
    IN zip(Diff_current(self.macd), Sma_current(self.signal))

\* mutant: the signal average is fed the input, not the macd line
Macd_next_signal(self, input) ==
    LET ret(s1) == [s |-> s1, o |-> Macd_current(s1)[1]]
        signal(rm, rs) == [self EXCEPT !.macd = rm.s, !.signal = rs.s]
        macd(rm) == signal(rm, Sma_next(self.signal, input))
    IN ret(macd(Diff_next(self.macd, <<input, input>>)))

Macd_next(self, input) ==
    LET ret(s1) == [s |-> s1, o |-> Macd_current(s1)[1]]
        signal(rm, rs) == [self EXCEPT !.macd = rm.s, !.signal = rs.s]
        macd(rm) == signal(rm, Sma_next(self.signal, rm.o))
    IN ret(macd(Diff_next(self.macd, <<input, input>>)))

Macd_reset(self) == [self EXCEPT !.macd = Diff_reset(@), !.signal = Sma_reset(@)]

\* ------------------------------------------------------------------------
Next(self, input) ==
    CASE self.kind = "Sma" -> Sma_next(self, input)
      [] self.kind = "Ema" -> Ema_next(self, input)
      [] self.kind = "Rma" -> Rma_next(self, input)
      [] self.kind = "Rsi" -> Rsi_next(self, input)
      [] self.kind = "Max" -> Max_next(self, input)
      [] self.kind = "Min" -> Min_next(self, input)
      [] self.kind = "MaxIndex" -> MaxIndex_next(self, input)
      [] self.kind = "MinIndex" -> MinIndex_next(self, input)
      [] self.kind = "StandardDeviation" -> StandardDeviation_next(self, input)
      [] self.kind = "BolingerBands" -> BolingerBands_next(self, input)
      [] self.kind = "Vwap" -> Vwap_next(self, input)
      [] self.kind = "Vwma" -> Vwma_next(self, input)
      [] self.kind = "Stochastics" -> Stochastics_next(self, input)
      [] self.kind = "AroonIndicator" -> AroonIndicator_next(self, input)
      [] self.kind = "AroonOscillator" -> AroonOscillator_next(self, input)
      [] self.kind = "Macd" -> Macd_next(self, input)
      [] self.kind = "Identity" -> Identity_next(self, input)
      [] self.kind = "Constant" -> Constant_next(self, input)
      [] self.kind = "Map" -> Map_next(self, input)
      [] self.kind = "Composition" -> Composition_next(self, input)
      [] self.kind = "Together" -> Together_next(self, input)
      [] self.kind = "Diff" -> Diff_next(self, input)
      [] self.kind = "Mature" -> Mature_next(self, input)
      [] self.kind = "Window" -> Window_next(self, input)

Current(self) ==
    CASE self.kind = "Sma" -> Sma_current(self)
      [] self.kind = "Ema" -> Ema_current(self)
      [] self.kind = "Rma" -> Rma_current(self)
      [] self.kind = "Rsi" -> Rsi_current(self)
      [] self.kind = "Max" -> Max_current(self)
      [] self.kind = "Min" -> Min_current(self)
      [] self.kind = "MaxIndex" -> MaxIndex_current(self)
      [] self.kind = "MinIndex" -> MinIndex_current(self)
      [] self.kind = "StandardDeviation" -> StandardDeviation_current(self)
      [] self.kind = "BolingerBands" -> BolingerBands_current(self)
      [] self.kind = "Vwap" -> Vwap_current(self)
      [] self.kind = "Vwma" -> Vwma_current(self)
      [] self.kind = "Stochastics" -> Stochastics_current(self)
      [] self.kind = "AroonIndicator" -> AroonIndicator_current(self)
      [] self.kind = "AroonOscillator" -> AroonOscillator_current(self)
      [] self.kind = "Macd" -> Macd_current(self)
      [] self.kind = "Identity" -> Identity_current(self)
      [] self.kind = "Constant" -> Constant_current(self)
      [] self.kind = "Map" -> Map_current(self)
      [] self.kind = "Composition" -> Composition_current(self)
      [] self.kind = "Together" -> Together_current(self)
      [] self.kind = "Diff" -> Diff_current(self)
      [] self.kind = "Mature" -> Mature_current(self)
      [] self.kind = "Window" -> Window_current(self)

Reset(self) ==
    CASE self.kind = "Sma" -> Sma_reset(self)
      [] self.kind = "Ema" -> Ema_reset(self)
      [] self.kind = "Rma" -> Rma_reset(self)
      [] self.kind = "Rsi" -> Rsi_reset(self)
      [] self.kind = "Max" -> Max_reset(self)
      [] self.kind = "Min" -> Min_reset(self)
      [] self.kind = "MaxIndex" -> MaxIndex_reset(self)
      [] self.kind = "MinIndex" -> MinIndex_reset(self)
      [] self.kind = "StandardDeviation" -> StandardDeviation_reset(self)
      [] self.kind = "BolingerBands" -> BolingerBands_reset(self)
      [] self.kind = "Vwap" -> Vwap_reset(self)
      [] self.kind = "Vwma" -> Vwma_reset(self)
      [] self.kind = "Stochastics" -> Stochastics_reset(self)
      [] self.kind = "AroonIndicator" -> AroonIndicator_reset(self)
      [] self.kind = "AroonOscillator" -> AroonOscillator_reset(self)
      [] self.kind = "Macd" -> Macd_reset(self)
      [] self.kind = "Identity" -> Identity_reset(self)
      [] self.kind = "Constant" -> Constant_reset(self)
      [] self.kind = "Map" -> Map_reset(self)
      [] self.kind = "Composition" -> Composition_reset(self)
      [] self.kind = "Together" -> Together_reset(self)
      [] self.kind = "Diff" -> Diff_reset(self)
      [] self.kind = "Mature" -> Mature_reset(self)
      [] self.kind = "Window" -> Window_reset(self)

\* ====================================================== IndicatorIterator
\* input_iterator is the sequence of the items it has not yielded yet
IndicatorIterator_new(inner, input_iterator) ==
    [kind |-> "IndicatorIterator", inner |-> inner, input_iterator |-> input_iterator]

\* mutant: the indicator is advanced twice on the item
IndicatorIterator_next_twice(self) ==
    LET ret(r) == [s |-> [self EXCEPT !.inner = r.s, !.input_iterator = Tail(@)],
                   o |-> Some(r.o)]
        x == Head(self.input_iterator)
    IN IF Len(self.input_iterator) > 0
       THEN ret(Next(Next(self.inner, x).s, x))
       ELSE [s |-> self, o |-> None]

IndicatorIterator_next(self) ==
    LET ret(r) == [s |-> [self EXCEPT !.inner = r.s, !.input_iterator = Tail(@)],
                   o |-> Some(r.o)]
    IN IF Len(self.input_iterator) > 0
       THEN ret(Next(self.inner, Head(self.input_iterator)))
       ELSE [s |-> self, o |-> None]

\* ======================================================== IndicatorStream
\* input_stream is the sequence of the items it has not delivered yet.  The
\* two unsafe casts of `&self` hand out `&mut` to the fields of the pinned
\* `&mut Self` the call holds: the writes go to the stream's own fields.
IndicatorStream_new(inner, input_stream) ==
    [kind |-> "IndicatorStream", inner |-> inner, input_stream |-> input_stream]

\* mutant: a Pending poll advances the indicator on the item that is due
IndicatorStream_poll_next_early(self, ready) ==
    LET ret(r) == [s |-> [self EXCEPT !.inner = r.s, !.input_stream = Tail(@)],
                   o |-> [ready |-> TRUE, item |-> Some(r.o)]]
        early(r) == [s |-> [self EXCEPT !.inner = r.s], o |-> [ready |-> FALSE]]
    IN IF Len(self.input_stream) = 0
       THEN [s |-> self, o |-> IF ready THEN [ready |-> TRUE, item |-> None]
                               ELSE [ready |-> FALSE]]
       ELSE IF ready THEN ret(Next(self.inner, Head(self.input_stream)))
       ELSE early(Next(self.inner, Head(self.input_stream)))

\* ready: whether input_stream.poll_next(cx) is Ready; the Poll returned is
\* [ready |-> FALSE] for Pending and [ready |-> TRUE, item |-> Option]
IndicatorStream_poll_next(self, ready) ==
    LET ret(r) == [s |-> [self EXCEPT !.inner = r.s, !.input_stream = Tail(@)],
                   o |-> [ready |-> TRUE, item |-> Some(r.o)]]
    IN IF ~ready THEN [s |-> self, o |-> [ready |-> FALSE]]
       ELSE IF Len(self.input_stream) > 0
       THEN ret(Next(self.inner, Head(self.input_stream)))
       ELSE [s |-> self, o |-> [ready |-> TRUE, item |-> None]]

\* ================================================================ harness
\* The indicators under test, as the unit tests and doc examples construct
\* them.  input: "f64" for a scalar input, "pair" for a two-component input;
\* base: the inputs are base + 0..MaxIn.
GenericTable == <<
    [new |-> Sma_new(1), input |-> "f64", base |-> 0],
    [new |-> Sma_new(2), input |-> "f64", base |-> 0],
    [new |-> Ema_new(2), input |-> "f64", base |-> 0],
    [new |-> Rma_new(2), input |-> "f64", base |-> 0],
    [new |-> Max_new(2), input |-> "f64", base |-> 0],
    [new |-> Min_new(2), input |-> "f64", base |-> 0],
    [new |-> MaxIndex_new(2), input |-> "f64", base |-> 0],
    [new |-> MinIndex_new(2), input |-> "f64", base |-> 0],
    [new |-> StandardDeviation_new(2), input |-> "f64", base |-> 0],
    [new |-> Rsi_new(2), input |-> "f64", base |-> 0],
    [new |-> Macd_new(1, 2, 2), input |-> "f64", base |-> 0],
    [new |-> Vwap_new, input |-> "pair", base |-> 0],
    [new |-> Vwma_new(2), input |-> "pair", base |-> 0],
    [new |-> Stochastics_new(2, 2, 2), input |-> "f64", base |-> 0],
    [new |-> AroonIndicator_new(2), input |-> "f64", base |-> 0],
    [new |-> AroonOscillator_new(1), input |-> "f64", base |-> 0],
    [new |-> BolingerBands_new(2, F(2)), input |-> "f64", base |-> 0],
    [new |-> Identity_new, input |-> "f64", base |-> 0],
    [new |-> Constant_from(F(1)), input |-> "f64", base |-> 0],
    [new |-> Map_new(Sma_new(2), "square"), input |-> "f64", base |-> 0],
    [new |-> Map_new(Macd_new(1, 2, 1), "macd"), input |-> "f64", base |-> 0],
    [new |-> Composition_new(Rsi_new(2), Sma_new(2)), input |-> "f64", base |-> 0],
    [new |-> pushforward(Rsi_new(2), Sma_new(2)), input |-> "f64", base |-> 0,
     alt |-> pullback(Sma_new(2), Rsi_new(2))],
    [new |-> pullback(Max_new(2), Ema_new(2)), input |-> "f64", base |-> 0,
     alt |-> pushforward(Ema_new(2), Max_new(2))],
    [new |-> Together_new(Sma_new(2), Ema_new(2)), input |-> "f64", base |-> 0],
    [new |-> Together_new(Vwap_new, Vwma_new(1)), input |-> "pair", base |-> 0],
    [new |-> Diff_new(Identity_new, Identity_new), input |-> "pair", base |-> 0],
    [new |-> Diff_new(Sma_new(2), Min_new(2)), input |-> "pair", base |-> 0],
    [new |-> Mature_new(Sma_new(2), 0), input |-> "f64", base |-> 0],
    [new |-> Mature_new(Sma_new(2), 1), input |-> "f64", base |-> 0],
    [new |-> Mature_new(Rsi_new(2), 2), input |-> "f64", base |-> 0],
    [new |-> Mature_new(Mature_new(Sma_new(2), 1), 0), input |-> "f64", base |-> 0],
    [new |-> Window_new(Sma_new(2), 2), input |-> "f64", base |-> 0],
    [new |-> Window_new(Identity_new, 3), input |-> "f64", base |-> 0],
    [new |-> Window_new(Identity_new, 0), input |-> "f64", base |-> 0],
    [new |-> Map_new(Together_new(Identity_new, Map_new(Sma_new(2), "square")), "first"),
     input |-> "f64", base |-> 0],
    [new |-> Composition_new(Diff_new(Identity_new, Ema_new(1)), Mature_new(Max_new(2), 1)),
     input |-> "pair", base |-> 0],
    [new |-> Together_new(Mature_new(Identity_new, 1), Window_new(Mature_new(Sma_new(1), 1), 2)),
     input |-> "f64", base |-> 0],
    [new |-> Mature_new(Window_new(Composition_new(Sma_new(2), Min_new(2)), 2), 1),
     input |-> "f64", base |-> 0],
    [new |-> Diff_new(Map_new(Identity_new, "square"), Composition_new(Identity_new, Sma_new(2))),
     input |-> "pair", base |-> 0]
>>

\* the worked examples, run without reset for ExSteps advances:
\* composition.rs tests (Rsi feeding Sma) and the opposite order, the
\* IndicatorExt::mature doc example, the mature.rs tests, and Mature with
\* the periods 0, 1 and 2; Together and Diff over a child that was advanced
\* before it was wrapped, and over fresh children; the diff.rs tests, whose
\* INPUTS are fed in their order (input "script")
ExampleTable == <<
    [new |-> Composition_new(Rsi_new(3), Sma_new(2)),
     input |-> "f64", base |-> 100, steps |-> ExSteps],
    [new |-> Composition_new(Sma_new(2), Rsi_new(3)),
     input |-> "f64", base |-> 100, steps |-> ExSteps],
    [new |-> Mature_new(Sma_new(4), 3), input |-> "f64", base |-> 0, steps |-> ExSteps],
    [new |-> Mature_new(Sma_new(5), 3), input |-> "f64", base |-> 100, steps |-> ExSteps],
    [new |-> Mature_new(Sma_new(2), 0), input |-> "f64", base |-> 0, steps |-> ExSteps],
    [new |-> Mature_new(Identity_new, 1), input |-> "f64", base |-> 0, steps |-> ExSteps],
    [new |-> Mature_new(Ema_new(2), 2), input |-> "f64", base |-> 0, steps |-> ExSteps],
    [new |-> Together_new(Sma_next(Sma_new(2), F(5)).s, Ema_new(2)),
     input |-> "f64", base |-> 0, steps |-> ExSteps],
    [new |-> Diff_new(Identity_new, Identity_next(Identity_new, F(1)).s),
     input |-> "pair", base |-> 0, steps |-> ExSteps],
    [new |-> Together_new(Sma_new(2), Mature_new(Identity_new, 1)),
     input |-> "f64", base |-> 0, steps |-> ExSteps],
    [new |-> Diff_new(Sma_new(2), Min_new(2)), input |-> "pair", base |-> 0, steps |-> ExSteps],
    [new |-> Diff_new(Identity_new, Identity_new), input |-> "script",
     script |-> <<<<F(0), F(0)>>, <<F(1), F(1)>>, <<F(0), F(2)>>,
                  <<F(2), F(0)>>, <<F(3), F(1)>>, <<F(1), F(9)>>>>,
     steps |-> ExSteps]
>>

\* X::new(args) by the name of the type
Construct(ctor, args) ==
    CASE ctor = "Sma" -> Sma_new(args[1])
      [] ctor = "Ema" -> Ema_new(args[1])
      [] ctor = "Rma" -> Rma_new(args[1])
      [] ctor = "Rsi" -> Rsi_new(args[1])
      [] ctor = "Max" -> Max_new(args[1])
      [] ctor = "Min" -> Min_new(args[1])
      [] ctor = "MaxIndex" -> MaxIndex_new(args[1])
      [] ctor = "MinIndex" -> MinIndex_new(args[1])
      [] ctor = "StandardDeviation" -> StandardDeviation_new(args[1])
      [] ctor = "Vwma" -> Vwma_new(args[1])
      [] ctor = "AroonIndicator" -> AroonIndicator_new(args[1])
      [] ctor = "AroonOscillator" -> AroonOscillator_new(args[1])
      [] ctor = "BolingerBands" -> BolingerBands_new(args[1], args[2])
      [] ctor = "Stochastics" -> Stochastics_new(args[1], args[2], args[3])
      [] ctor = "Macd" -> Macd_new(args[1], args[2], args[3])

\* every constructor that validates its parameters, called with every
\* period in 0..MaxPeriod (BolingerBands also with the multipliers -1, -1/2,
\* 0 and 1), as test_new_invalid_parameter! and test_indicator! call them
NewTable ==
    LET P == MaxPeriod + 1
        one == <<"Sma", "Ema", "Rma", "Rsi", "Max", "Min", "MaxIndex", "MinIndex",
                 "StandardDeviation", "Vwma", "AroonIndicator", "AroonOscillator">>
        multipliers == <<F(-1), <<-1, 2>>, F(0), F(1)>>
        entry(ctor, args) ==
            [new |-> Construct(ctor, args), ctor |-> ctor, args |-> args,
             input |-> IF ctor = "Vwma" THEN "pair" ELSE "f64", base |-> 0]
        three(n) == <<n \div (P * P), (n \div P) % P, n % P>>
    IN [n \in 1..(Len(one) * P) |-> entry(one[((n - 1) \div P) + 1], <<(n - 1) % P>>)]
       \o [n \in 1..(4 * P) |->
              entry("BolingerBands", <<(n - 1) % P, multipliers[((n - 1) \div P) + 1]>>)]
       \o [n \in 1..(P * P * P) |-> entry("Stochastics", three(n - 1))]
       \o [n \in 1..(P * P * P) |-> entry("Macd", three(n - 1))]

\* the index indicators on inputs that include NaN (input "float": NaN for
\* k = 0), and MaxIndex fed by Vwma, whose output is 0/0 when the volume is 0;
\* Stochastics and BolingerBands on inputs of a rounding format (input
\* "rounded")
FloatTable == <<
    [new |-> MaxIndex_new(1), input |-> "float", base |-> 0],
    [new |-> MaxIndex_new(2), input |-> "float", base |-> 0],
    [new |-> MinIndex_new(1), input |-> "float", base |-> 0],
    [new |-> MinIndex_new(2), input |-> "float", base |-> 0],
    [new |-> Composition_new(Vwma_new(1), MaxIndex_new(1)), input |-> "pair", base |-> 0],
    [new |-> AroonIndicator_new(1), input |-> "float", base |-> 0],
    [new |-> [AroonIndicator_new(1) EXCEPT !.overflow_checks = TRUE],
     input |-> "float", base |-> 0],
    [new |-> AroonOscillator_new(1), input |-> "float", base |-> 0],
    [new |-> [AroonOscillator_new(1) EXCEPT !.aroon_indicator.overflow_checks = TRUE],
     input |-> "float", base |-> 0],
    [new |-> Composition_new(Vwma_new(1), AroonIndicator_new(1)), input |-> "pair", base |-> 0],
    [new |-> Rsi_new(2), input |-> "float", base |-> 0],
    [new |-> Stochastics_new(2, 2, 2), input |-> "rounded", mantissa |-> 3, base |-> 0,
     steps |-> 5],
    [new |-> BolingerBands_new(2, F(0)), input |-> "rounded", mantissa |-> 3, base |-> 6]
>>

Shapes == GenericTable \o ExampleTable \o NewTable \o FloatTable
GenericShapes == 1..Len(GenericTable)
ExampleShapes == (Len(GenericTable) + 1)..(Len(GenericTable) + Len(ExampleTable))
ExRsiSma == Len(GenericTable) + 1
ExSmaRsi == Len(GenericTable) + 2
ExMatureDoc == Len(GenericTable) + 3
ExDiffTest == Len(GenericTable) + 12

New(i) == Shapes[i].new

\* the k-th test input of shape i
InputOf(sh, k) ==
    CASE sh.input = "f64" -> F(sh.base + k)
      [] sh.input = "pair" -> <<F(sh.base + k), F((k + 1) % 3)>>
      [] sh.input = "script" -> sh.script[k + 1]
      [] sh.input = "float" -> IF k = 0 THEN NaN ELSE F(sh.base + k)
      [] sh.input = "rounded" -> <<sh.base + k, 1, sh.mantissa>>

\* the number of advances of a run on shape sh
StepsOf(sh) == IF "steps" \in DOMAIN sh THEN sh.steps ELSE MaxSteps

\* the children a combinator owns, as separately constructed indicators
Children(t) ==
    CASE t.kind \in {"Map", "Mature"} -> <<t.i>>
      [] t.kind = "Window" -> <<t.inner>>
      [] t.kind = "Composition" -> <<t.inner, t.outer>>
      [] t.kind \in {"Together", "Diff"} -> <<t.lhs, t.rhs>>
      [] OTHER -> <<>>

\* the indicator, its twin and its separately constructed children
\* (ts = <<ind, twin>> \o ref), each advanced alone by one call: the
\* indicator and the twin on x, the children on the input the combinator's
\* contract gives them; done holds what the calls so far returned
RECURSIVE RefNext(_, _, _, _)
RefNext(kind, ts, x, done) ==
    IF Len(done) = Len(ts) THEN done
    ELSE RefNext(kind, ts, x,
                 Append(done, Next(ts[Len(done) + 1],
                                   CASE Len(done) = 2 /\ kind = "Diff" -> x[1]
                                     [] Len(done) = 3 /\ kind = "Diff" -> x[2]
                                     [] Len(done) = 3 /\ kind = "Composition" -> done[3].o
                                     [] OTHER -> x)))

VARIABLES
    shape,    \* which of Shapes was constructed
    ind,      \* the indicator under test
    ref,      \* its children, constructed separately and advanced alone
    twin,     \* an indicator constructed afresh at the last reset
    run,      \* [x, o]: inputs and outputs since construction or the last reset
    prev,     \* the run before the last reset
    resets,   \* number of resets so far
    last      \* the last call: op, the value it returned, what ref and twin returned

vars == <<shape, ind, ref, twin, run, prev, resets, last>>

\* indicator t constructed apart and fed the first n inputs of the run: its
\* state and what its n-th call returned
RECURSIVE Drive(_, _)
Drive(t, n) ==
    IF n = 0 THEN [s |-> t, o |-> None]
    ELSE Next(Drive(t, n - 1).s, InputOf(Shapes[shape], run[n].x))

InitShape(i) ==
    /\ shape = i
    /\ ind = New(i)
    /\ ref = Children(New(i))
    /\ twin = New(i)
    /\ run = <<>>
    /\ prev = <<>>
    /\ resets = 0
    /\ last = [op |-> "new", out |-> None, ref |-> <<>>, twin |-> None]

Init == \E i \in GenericShapes : InitShape(i)
InitExample == \E i \in ExampleShapes : InitShape(i)

\* a call on t or inside t has panicked
RECURSIVE Panicked(_)
Panicked(t) ==
    t = Panic \/ \E j \in 1..Len(Children(t)) : Panicked(Children(t)[j])

\* indicator.next(x); after a reset the inputs of the run before it are fed
\* again first (test_reset!), any input after them
DoNext(k) ==
    /\ ~IsErr(ind) /\ ~Panicked(ind)
    /\ (resets > 0 /\ Len(run) < Len(prev)) => k = prev[Len(run) + 1].x
    /\ LET called(rs) ==
               /\ ind' = rs[1].s
               /\ twin' = rs[2].s
               /\ ref' = [i \in 1..Len(ref) |-> rs[i + 2].s]
               /\ run' = Append(run, [x |-> k, o |-> rs[1].o])
               /\ last' = [op |-> "next", out |-> rs[1].o,
                           ref |-> [i \in 1..Len(ref) |-> rs[i + 2].o], twin |-> rs[2].o]
           call(sh) ==
               /\ Len(run) < StepsOf(sh)
               /\ sh.input = "script" => (k = Len(run) /\ k < Len(sh.script))
               /\ called(RefNext(ind.kind, <<ind, twin>> \o ref, InputOf(sh, k), <<>>))
       IN call(Shapes[shape])
    /\ UNCHANGED <<shape, prev, resets>>

\* indicator.current(), a `&self` call
DoCurrent ==
    /\ ~IsErr(ind) /\ ~Panicked(ind)
    /\ last.op # "current"
    /\ LET read(cs) ==
               last' = [op |-> "current", out |-> cs[1],
                        ref |-> [i \in 1..Len(ref) |-> cs[i + 2]], twin |-> cs[2]]
       IN read([j \in 1..(Len(ref) + 2) |-> Current((<<ind, twin>> \o ref)[j])])
    /\ UNCHANGED <<shape, ind, ref, twin, run, prev, resets>>

\* indicator.reset()
DoReset ==
    /\ ~IsErr(ind) /\ ~Panicked(ind)
    /\ resets < MaxResets
    /\ ind' = Reset(ind)
    /\ ref' = [i \in 1..Len(ref) |-> Reset(ref[i])]
    /\ twin' = New(shape)
    /\ prev' = run
    /\ run' = <<>>
    /\ resets' = resets + 1
    /\ last' = [op |-> "reset", out |-> None, ref |-> <<>>, twin |-> None]
    /\ UNCHANGED shape

Next_ == (\E k \in 0..MaxIn : DoNext(k)) \/ DoCurrent \/ DoReset

Spec == Init /\ [][Next_]_vars

\* the constructors called with valid and invalid parameters; what they
\* return is advanced, read and reset when it is an indicator
SpecNew ==
    /\ \E i \in 1..Len(Shapes) : "ctor" \in DOMAIN Shapes[i] /\ InitShape(i)
    /\ [][Next_]_vars

\* the index indicators fed every f64, NaN included
SpecFloat ==
    /\ \E i \in (Len(Shapes) - Len(FloatTable) + 1)..Len(Shapes) : InitShape(i)
    /\ [][Next_]_vars

\* the next input of a test's INPUTS
DoScript == Shapes[shape].input = "script" /\ DoNext(Len(run))

NextExample == (\E k \in 0..MaxIn : DoNext(k)) \/ DoCurrent \/ DoScript

SpecExample == InitExample /\ [][NextExample]_vars

\* iterator.next() (indicator_iterator.rs tests): the indicator kept apart
\* (twin) is advanced on the item the adapter takes; prev holds the items the
\* input was created over
DoIter ==
    /\ ind.kind = "IndicatorIterator"
    /\ LET called(r, t) ==
               /\ ind' = r.s
               /\ twin' = t.s
               /\ run' = IF IsSome(r.o)
                         THEN Append(run, [x |-> prev[Len(run) + 1].x, o |-> r.o[1]])
                         ELSE run
               /\ last' = [op |-> "iter", out |-> r.o, ref |-> <<>>,
                           twin |-> IF IsSome(r.o) THEN Some(t.o) ELSE None]
       IN called(IndicatorIterator_next(ind),
                 IF Len(run) < Len(prev)
                 THEN Next(twin, InputOf(Shapes[shape], prev[Len(run) + 1].x))
                 ELSE [s |-> twin, o |-> None])
    /\ UNCHANGED <<shape, ref, prev, resets>>

\* stream.poll_next(cx) (indicator_stream.rs tests), the input stream being
\* Ready or Pending as it likes
DoPoll(ready) ==
    /\ ind.kind = "IndicatorStream"
    /\ LET called(r, t) ==
               /\ ind' = r.s
               /\ twin' = IF r.o.ready /\ IsSome(r.o.item) THEN t.s ELSE twin
               /\ run' = IF r.o.ready /\ IsSome(r.o.item)
                         THEN Append(run, [x |-> prev[Len(run) + 1].x, o |-> r.o.item[1]])
                         ELSE run
               /\ last' = [op |-> "poll", out |-> r.o, ref |-> <<>>,
                           twin |-> IF r.o.ready /\ IsSome(r.o.item) THEN Some(t.o) ELSE None]
       IN called(IndicatorStream_poll_next(ind, ready),
                 IF Len(run) < Len(prev)
                 THEN Next(twin, InputOf(Shapes[shape], prev[Len(run) + 1].x))
                 ELSE [s |-> twin, o |-> None])
    /\ UNCHANGED <<shape, ref, prev, resets>>

\* an indicator of the table wrapped with an input of up to MaxSteps items
SpecAdapter ==
    /\ \E i \in GenericShapes, n \in 0..MaxSteps, stream \in BOOLEAN :
          \E ks \in [1..n -> 0..MaxIn] :
             LET items == [j \in 1..n |-> InputOf(Shapes[i], ks[j])]
             IN /\ shape = i
                /\ ind = IF stream THEN IndicatorStream_new(New(i), items)
                         ELSE IndicatorIterator_new(New(i), items)
                /\ ref = <<>>
                /\ twin = New(i)
                /\ run = <<>>
                /\ prev = [j \in 1..n |-> [x |-> ks[j], o |-> None]]
                /\ resets = 0
                /\ last = [op |-> "new", out |-> None, ref |-> <<>>, twin |-> None]
    /\ [][DoIter \/ \E ready \in BOOLEAN : DoPoll(ready)]_vars

\* test_helper Round::round for a finite f64, (self / PRECISION).round() *
\* PRECISION with PRECISION = 1e-8, as the whole number of 1e-8 units: eight
\* digits of long division, then rounding half away from zero
RECURSIVE Round_digits(_, _, _, _)
Round_digits(acc, r, d, k) ==
    IF k = 0 THEN (IF 2 * r >= d THEN acc + 1 ELSE acc)
    ELSE Round_digits(acc * 10 + (r * 10) \div d, (r * 10) % d, d, k - 1)

Round_round(v) == Sign(v[1]) * Round_digits(Abs(v[1]) \div v[2], Abs(v[1]) % v[2], v[2], 8)

\* composition.rs tests: INPUTS 100, 101, 100, 100, 100, 102 as offsets from
\* the base 100, and OUTPUTS 0.5, 0.75, 0.7, 0.4, 0.4, 0.6405940594 after
\* Round::round, in 1e-8 units
CompositionInputs == <<0, 1, 0, 0, 0, 2>>
CompositionOutputs == <<50000000, 75000000, 70000000, 40000000, 40000000, 64059406>>

\* what the child of the combinator under test, constructed apart, returns
\* for the j-th input of the run
ChildOutput(j) == Drive(Children(New(shape))[1], j).o

\* diff.rs tests: OUTPUTS
DiffOutputs == <<F(0), F(0), F(-2), F(2), F(2), F(-8)>>

\* ================================================================= claims
RunInputs == [j \in 1..Len(run) |-> run[j].x]
RunOutputs == [j \in 1..Len(run) |-> run[j].o]
IsPrefix(a, b) == Len(a) <= Len(b) /\ \A j \in 1..Len(a) : a[j] = b[j]

\* the IndicatorExt::mature doc example: Sma(4).mature(3)
MatureDocInputs == <<1, 2, 1, 2, 1, 2>>
MatureDocOutputs == <<None, None, None, Some(<<3, 2>>), Some(<<3, 2>>), Some(<<3, 2>>)>>

\* C1: Mature with period N returns None on each of the first N advances
\* after construction and Some(v) on every later one, v being what the
\* separately advanced child returns for the same input; on the doc example
\* (Sma(4).mature(3) over 1,2,1,2,1,2) the outputs are None, None, None,
\* Some(1.5), Some(1.5), Some(1.5).
C1_MatureThreshold ==
    /\ (ind.kind = "Mature" /\ last.op = "next") =>
            IF Len(run) <= ind.period THEN last.out = None
            ELSE last.out = Some(last.ref[1])
    /\ (shape = ExMatureDoc /\ IsPrefix(RunInputs, MatureDocInputs)) =>
            IsPrefix(RunOutputs, MatureDocOutputs)

C1_Witness ==
    /\ shape = ExMatureDoc
    /\ RunInputs = MatureDocInputs
    /\ last.op = "next"
    /\ last.out = Some(<<3, 2>>)

\* C2 as stated: the first N+1 advances return None and the (N+2)-th is the
\* first to return Some.
C2_Original ==
    (ind.kind = "Mature" /\ last.op = "next") =>
        (IsNone(last.out) <=> Len(run) <= ind.period + 1)

\* C2 amended: in every run of a Mature with period N exactly the first N
\* advances returned None, whatever the child returned, and the (N+1)-th
\* advance is the first that returns Some(child output).
C2_Amended ==
    ind.kind = "Mature" =>
        /\ \A j \in 1..Len(run) : IsNone(run[j].o) <=> j <= ind.period
        /\ (last.op = "next" /\ Len(run) = ind.period + 1) => last.out = Some(last.ref[1])

C2_Witness ==
    /\ ind.kind = "Mature"
    /\ ind.period = 2
    /\ last.op = "next"
    /\ Len(run) = 3
    /\ IsSome(last.out)
    /\ resets = 1

\* C3 as stated: with N = 0 the first advance returns None and the second
\* returns Some(child output).
C3_Original ==
    (ind.kind = "Mature" /\ ind.period = 0 /\ last.op = "next") =>
        IF Len(run) = 1 THEN last.out = None ELSE last.out = Some(last.ref[1])

\* C3 amended: Mature constructed with N = 0 suppresses no advance: its
\* first advance, and every later one, returns Some(child output).
C3_Amended ==
    (ind.kind = "Mature" /\ ind.period = 0 /\ last.op = "next") =>
        /\ last.out = Some(last.ref[1])
        /\ ind.cnt = 0

C3_Witness ==
    /\ ind.kind = "Mature"
    /\ ind.period = 0
    /\ last.op = "next"
    /\ Len(run) = 1
    /\ resets = 0
    /\ IsSome(last.out)

\* the trees C4 speaks of: primitives, and Map, Composition, Together and
\* Diff built over them
RECURSIVE Plain(_)
Plain(t) ==
    CASE t.kind = "Map" -> Plain(t.i)
      [] t.kind = "Composition" -> Plain(t.inner) /\ Plain(t.outer)
      [] t.kind \in {"Together", "Diff"} -> Plain(t.lhs) /\ Plain(t.rhs)
      [] t.kind \in {"Mature", "Window", "Constant"} -> FALSE
      [] OTHER -> TRUE

\* C4: for a primitive indicator, or Map, Composition, Together, Diff over
\* primitives, right after next(x) returned v, current() is Some(v) (NaN
\* taken as the value it is); a call of current() returns the held value
\* and leaves the indicator as it was, so no later output changes.
C4_CurrentCoherence ==
    /\ []((last.op = "next" /\ Plain(ind)) => Current(ind) = Some(last.out))
    /\ [][last'.op = "current" => (ind' = ind /\ last'.out = Current(ind))]_vars

C4_Witness ==
    /\ ind.kind = "Composition"
    /\ Plain(ind)
    /\ last.op = "current"
    /\ Len(run) = 2
    /\ last.out = Some(run[2].o)
    /\ last.out # Current(ind.inner)

\* C5: for everything but Constant, at any nesting of the combinators,
\* current() is None right after construction and right after reset().
C5_CurrentNoneWhenFresh ==
    (last.op \in {"new", "reset"} /\ ind.kind # "Constant") => Current(ind) = None

C5_Witness ==
    /\ last.op = "reset"
    /\ Len(prev) = 3
    /\ ind.kind = "Mature"
    /\ ind.i.kind = "Window"
    /\ Current(ind) = None

\* C6: after reset(), the run over the same inputs as the run before the
\* reset produces the same outputs, position by position.
C6_ResetEquivalence ==
    resets > 0 =>
        \A j \in 1..Len(run) :
            (j <= Len(prev) /\ \A i \in 1..j : run[i].x = prev[i].x) => run[j].o = prev[j].o

C6_Witness ==
    /\ resets = 1
    /\ ind.kind = "Composition"
    /\ Len(run) = 3
    /\ Len(prev) = 3
    /\ \A i \in 1..3 : run[i].x = prev[i].x /\ run[i].o = prev[i].o
    /\ run[1].o # run[3].o

\* the trees that hold a Window, whose reset() keeps the cells of the ring
\* and the references of buf as they were
RECURSIVE HasWindow(_)
HasWindow(t) ==
    CASE t.kind = "Window" -> TRUE
      [] t.kind \in {"Map", "Mature"} -> HasWindow(t.i)
      [] t.kind = "Composition" -> HasWindow(t.inner) \/ HasWindow(t.outer)
      [] t.kind \in {"Together", "Diff"} -> HasWindow(t.lhs) \/ HasWindow(t.rhs)
      [] OTHER -> FALSE

\* C7: after reset() every next and current returns what the same call
\* returns on an indicator constructed afresh and driven alike; where no
\* Window is involved the state after reset() is the constructed state
\* itself; and a second reset() leaves the state the first one produced.
C7_ResetIdempotence ==
    /\ (resets > 0 /\ last.op \in {"next", "current"}) => last.out = last.twin
    /\ (last.op = "reset" /\ ~HasWindow(ind)) => ind = twin
    /\ Reset(Reset(ind)) = Reset(ind)

C7_Witness ==
    /\ resets = 1
    /\ ind.kind = "Mature"
    /\ ind.period = 1
    /\ Len(prev) = 3
    /\ Len(run) = 2
    /\ last.op = "next"
    /\ IsSome(last.out)
    /\ last.out = last.twin

\* C8: Map(child, f).next(x) is f applied to what the child, advanced alone,
\* returns for x; the child inside Map is in the state of the child advanced
\* alone; Map.current() is the child's current() mapped through f, None
\* when the child has none.
C8_MapContract ==
    ind.kind = "Map" =>
        /\ last.op = "next" => last.out = ApplyF(ind.f, last.ref[1])
        /\ ind.i = ref[1]
        /\ Current(ind) = IF IsSome(Current(ref[1]))
                          THEN Some(ApplyF(ind.f, Current(ref[1])[1])) ELSE None

C8_Witness ==
    /\ ind.kind = "Map"
    /\ ind.f = "square"
    /\ last.op = "next"
    /\ Len(run) = 2
    /\ last.out # last.ref[1]
    /\ Current(ind) = Some(last.out)

\* C9: Composition(inner, outer).next(x) returns what outer, advanced alone
\* on the outputs of inner advanced alone on x, returns; after every call
\* both children are in the states of the children advanced alone once per
\* call; current() is outer's current().
C9_CompositionContract ==
    ind.kind = "Composition" =>
        /\ last.op = "next" => last.out = last.ref[2]
        /\ ind.inner = ref[1]
        /\ ind.outer = ref[2]
        /\ Current(ind) = Current(ref[2])

C9_Witness ==
    /\ ind.kind = "Composition"
    /\ last.op = "next"
    /\ Len(run) = 3
    /\ last.out = last.ref[2]
    /\ last.out # last.ref[1]

RoundedOutputs == [j \in 1..Len(run) |-> Round_round(run[j].o)]

\* C10 as stated: the composition in which Sma(2) feeds Rsi(3) yields the
\* worked example's outputs over the worked example's inputs.
C10_Original ==
    (shape = ExSmaRsi /\ IsPrefix(RunInputs, CompositionInputs)) =>
        IsPrefix(RoundedOutputs, CompositionOutputs)

\* C10 amended: the worked example is Composition::new(rsi, sma), Rsi(3)
\* feeding Sma(2); over 100, 101, 100, 100, 100, 102 it yields, rounded to
\* 8 decimals, 0.5, 0.75, 0.7, 0.4, 0.4, 0.64059406.
C10_Amended ==
    (shape = ExRsiSma /\ IsPrefix(RunInputs, CompositionInputs)) =>
        /\ ind.inner.kind = "Rsi"
        /\ ind.outer.kind = "Sma"
        /\ IsPrefix(RoundedOutputs, CompositionOutputs)

C10_Witness ==
    /\ shape = ExRsiSma
    /\ RunInputs = CompositionInputs
    /\ last.op = "next"
    /\ last.out = <<647, 1010>>
    /\ Round_round(last.out) = 64059406

\* C11: outer.pushforward(inner) and inner.pullback(outer) are the same
\* Composition (inner feeds outer): constructed equal, and over every input
\* sequence the one returns what the other, constructed apart and fed the
\* same inputs, returns, with the same current() after every call.
C11_PushforwardPullback ==
    "alt" \in DOMAIN Shapes[shape] =>
        /\ New(shape) = Shapes[shape].alt
        /\ \A j \in 1..Len(run) : run[j].o = Drive(Shapes[shape].alt, j).o
        /\ Current(ind) = Current(Drive(Shapes[shape].alt, Len(run)).s)

C11_Witness ==
    /\ "alt" \in DOMAIN Shapes[shape]
    /\ ind.inner.kind = "Sma"
    /\ ind.outer.kind = "Rsi"
    /\ Len(run) = 3
    /\ last.op = "current"
    /\ last.out = Some(Drive(Shapes[shape].alt, 3).o)
    /\ run[3].o # run[1].o

\* C12: Together(lhs, rhs).next(x) returns the pair of what lhs and rhs,
\* each advanced alone on x, return; after every call the two children
\* inside are in the states of the children advanced alone once per call.
C12_TogetherContract ==
    ind.kind = "Together" =>
        /\ last.op = "next" => last.out = <<last.ref[1], last.ref[2]>>
        /\ ind.lhs = ref[1]
        /\ ind.rhs = ref[2]

C12_Witness ==
    /\ ind.kind = "Together"
    /\ ind.lhs.kind = "Sma"
    /\ last.op = "next"
    /\ Len(run) = 3
    /\ last.out = <<last.ref[1], last.ref[2]>>
    /\ last.out[1] # last.out[2]

\* C13: current() of Together(A, B) and of Diff(A, B) is None whenever A or
\* B has no current value, also when one of them was advanced before it was
\* wrapped, and is Some of the pair, resp. of the difference, of the two
\* current values exactly when both have one.
C13_ConjunctiveReadiness ==
    ind.kind \in {"Together", "Diff"} =>
        IF IsSome(Current(ind.lhs)) /\ IsSome(Current(ind.rhs))
        THEN Current(ind) = Some(IF ind.kind = "Together"
                                 THEN <<Current(ind.lhs)[1], Current(ind.rhs)[1]>>
                                 ELSE fsub(Current(ind.lhs)[1], Current(ind.rhs)[1]))
        ELSE Current(ind) = None

C13_Witness ==
    /\ ind.kind = "Together"
    /\ Len(run) = 0
    /\ last.op = "current"
    /\ IsSome(Current(ind.lhs))
    /\ IsNone(Current(ind.rhs))
    /\ last.out = None

\* C14: Diff(lhs, rhs).next((xl, xr)) returns what lhs, advanced alone on
\* xl, returns minus what rhs, advanced alone on xr, returns, and leaves the
\* children in the states of the children advanced alone; Diff(Identity,
\* Identity) returns xl - xr at every step, and over the diff.rs INPUTS
\* 0, 0, -2, 2, 2, -8.
C14_DiffContract ==
    ind.kind = "Diff" =>
        /\ last.op = "next" => last.out = fsub(last.ref[1], last.ref[2])
        /\ ind.lhs = ref[1]
        /\ ind.rhs = ref[2]
        /\ (last.op = "next" /\ ind.lhs.kind = "Identity" /\ ind.rhs.kind = "Identity") =>
                last.out = fsub(InputOf(Shapes[shape], run[Len(run)].x)[1],
                                InputOf(Shapes[shape], run[Len(run)].x)[2])
        /\ shape = ExDiffTest => IsPrefix(RunOutputs, DiffOutputs)

C14_Witness ==
    /\ shape = ExDiffTest
    /\ Len(run) = 6
    /\ last.op = "next"
    /\ last.ref = <<F(1), F(9)>>
    /\ last.out = F(-8)

\* C15: for a Window of size N >= 1, once N or more advances have happened
\* since construction or reset, next returns the child's last N outputs,
\* oldest first.
C15_WindowFull ==
    (ind.kind = "Window" /\ ind.window_size >= 1 /\ last.op = "next"
        /\ Len(run) >= ind.window_size) =>
            last.out = [i \in 1..ind.window_size |->
                            ChildOutput(Len(run) - ind.window_size + i)]

C15_Witness ==
    /\ ind.kind = "Window"
    /\ ind.window_size = 2
    /\ last.op = "next"
    /\ Len(run) = 3
    /\ last.out = <<ChildOutput(2), ChildOutput(3)>>
    /\ ChildOutput(1) # ChildOutput(2)
    /\ ChildOutput(2) # ChildOutput(3)

\* C16: for a Window of size N >= 1, after k < N advances with child
\* outputs o1..ok, next returns a view of length N: o1 in the first
\* N - k + 1 places, then o2..ok.
C16_WindowPadding ==
    (ind.kind = "Window" /\ ind.window_size >= 1 /\ last.op = "next"
        /\ Len(run) < ind.window_size) =>
            /\ Len(last.out) = ind.window_size
            /\ \A i \in 1..ind.window_size :
                    last.out[i] = IF i <= ind.window_size - Len(run) + 1
                                  THEN ChildOutput(1)
                                  ELSE ChildOutput(i - (ind.window_size - Len(run)))

C16_Witness ==
    /\ ind.kind = "Window"
    /\ ind.window_size = 3
    /\ last.op = "next"
    /\ Len(run) = 2
    /\ last.out = <<ChildOutput(1), ChildOutput(1), ChildOutput(2)>>
    /\ ChildOutput(1) # ChildOutput(2)

\* C17: Window.current() is None before the first advance and after
\* reset, otherwise Some of the view the most recent next returned; a call
\* of current() leaves the Window, its child and its ring as they were.
C17_WindowCurrent ==
    /\ [](ind.kind = "Window" =>
            Current(ind) = IF Len(run) = 0 THEN None ELSE Some(run[Len(run)].o))
    /\ [][(ind.kind = "Window" /\ last'.op = "current") =>
            (ind' = ind /\ last'.out = Current(ind))]_vars

C17_Witness ==
    /\ ind.kind = "Window"
    /\ ind.window_size = 2
    /\ last.op = "current"
    /\ Len(run) = 2
    /\ resets = 1
    /\ last.out = Some(run[2].o)
    /\ run[2].o[1] # run[2].o[2]

\* C18: after Window.reset() every view holds outputs of the child from
\* the advances after the reset only, the first advance returns N copies
\* of the child's new first output, and every next returns what a Window
\* constructed afresh returns for the same inputs.
C18_WindowReset ==
    (ind.kind = "Window" /\ resets > 0 /\ last.op = "next") =>
        /\ last.out = last.twin
        /\ Len(run) = 1 => last.out = [i \in 1..ind.window_size |-> last.ref[1]]
        /\ \A i \in 1..Len(last.out) : \E j \in 1..Len(run) : last.out[i] = ChildOutput(j)

C18_Witness ==
    /\ ind.kind = "Window"
    /\ ind.window_size = 3
    /\ resets = 1
    /\ Len(prev) = 3
    /\ last.op = "next"
    /\ Len(run) = 1
    /\ last.out = <<last.ref[1], last.ref[1], last.ref[1]>>
    /\ prev[3].o[3] # last.ref[1]

C20_MatureReset ==
    (ind.kind = "Mature" /\ resets > 0) =>
        /\ last.op = "reset" =>
                /\ ind.cnt = ind.period + 1
                /\ ind.cnt = New(shape).cnt
                /\ ind.i = ref[1]
        /\ \A j \in 1..Len(run) : IsNone(run[j].o) <=> j <= ind.period
        /\ last.op = "next" => (last.out = last.twin /\ ind.cnt = twin.cnt)

C20_Witness ==
    /\ ind.kind = "Mature"
    /\ ind.period = 2
    /\ resets = 1
    /\ Len(prev) = 1
    /\ IsNone(prev[1].o)
    /\ Len(run) = 3
    /\ last.op = "next"
    /\ IsSome(last.out)
    /\ last.out = last.twin

\* C21: Identity.next(x) returns x itself; current() is None after
\* construction and after reset(), and Some(the last input) after any
\* sequence of advances.
C21_Identity ==
    ind.kind = "Identity" =>
        /\ \A j \in 1..Len(run) : run[j].o = InputOf(Shapes[shape], run[j].x)
        /\ Current(ind) = IF Len(run) = 0 THEN None
                          ELSE Some(InputOf(Shapes[shape], run[Len(run)].x))
        /\ last.op = "current" => last.out = Current(ind)

C21_Witness ==
    /\ ind.kind = "Identity"
    /\ resets = 1
    /\ Len(prev) = 2
    /\ Len(run) = 2
    /\ run[1].x # run[2].x
    /\ last.op = "current"
    /\ last.out = Some(InputOf(Shapes[shape], run[2].x))

\* C22: Sma, Ema, Max, Min, MaxIndex, MinIndex, StandardDeviation, Vwma and
\* AroonIndicator return an error for period 0 and an indicator for every
\* period >= 1; Rma and Rsi return an error for period < 2 and an indicator
\* for period >= 2; BolingerBands returns an error when period is 0 or
\* multiplier < 0 and an indicator for multiplier = 0; Stochastics returns
\* an error when one of its three periods is 0.  An error is a range error
\* and carries no indicator: nothing can be advanced, read or reset.
C22_ConstructionValidation ==
    "ctor" \in DOMAIN Shapes[shape] =>
        LET c == Shapes[shape].ctor
            a == Shapes[shape].args
        IN /\ c \in {"Sma", "Ema", "Max", "Min", "MaxIndex", "MinIndex",
                     "StandardDeviation", "Vwma", "AroonIndicator"} =>
                  /\ IsErr(ind) <=> a[1] = 0
                  /\ a[1] >= 1 => (ind.kind = c /\ ind.period = a[1])
                  /\ IsErr(ind) => ind = InvalidRangeError("InvalidUintRange", "period", 0, 1)
           /\ c \in {"Rma", "Rsi"} =>
                  /\ IsErr(ind) <=> a[1] < 2
                  /\ a[1] >= 2 => ind.kind = c
                  /\ IsErr(ind) => ind = InvalidRangeError("InvalidUintRange", "period", a[1], 2)
           /\ c = "BolingerBands" =>
                  /\ IsErr(ind) <=> (a[1] = 0 \/ flt(a[2], F(0)))
                  /\ (a[1] >= 1 /\ a[2] = F(0)) => ind.kind = c
                  /\ IsErr(ind) => ind.error \in {"InvalidUintRange", "InvalidFloatRange"}
           /\ c = "Stochastics" =>
                  /\ IsErr(ind) <=> (a[1] = 0 \/ a[2] = 0 \/ a[3] = 0)
                  /\ IsErr(ind) => ind = InvalidRangeError("InvalidUintRange", "period", 0, 1)
           /\ IsErr(ind) =>
                  /\ DOMAIN ind \subseteq {"kind", "error", "param", "range", "operator", "lhs", "rhs"}
                  /\ last.op = "new" /\ run = <<>> /\ resets = 0
           /\ ~IsErr(ind) => ind.kind = c

C22_Witness ==
    /\ "ctor" \in DOMAIN Shapes[shape]
    /\ Shapes[shape].ctor = "Rma"
    /\ Shapes[shape].args = <<1>>
    /\ IsErr(ind)
    /\ ind.range.min = 2

\* C23: Macd::new(short, long, signal) returns the invalid-relation error
\* (operator "<", short_period against long_period) whenever short >= long,
\* whatever the periods are otherwise; with short < long it returns the
\* range error of the first invalid child in the order short Ema, long Ema,
\* signal Sma, and the indicator built of Ema(short), Ema(long) and
\* Sma(signal) when all three are valid.
C23_MacdValidation ==
    ("ctor" \in DOMAIN Shapes[shape] /\ Shapes[shape].ctor = "Macd") =>
        LET a == Shapes[shape].args
        IN IF a[1] >= a[2]
           THEN ind = InvalidRelation("<", [name |-> "short_period", value |-> a[1]],
                                           [name |-> "long_period", value |-> a[2]])
           ELSE IF IsErr(Ema_new(a[1])) THEN ind = Ema_new(a[1])
           ELSE IF IsErr(Ema_new(a[2])) THEN ind = Ema_new(a[2])
           ELSE IF IsErr(Sma_new(a[3])) THEN ind = Sma_new(a[3])
           ELSE /\ ind.kind = "Macd"
                /\ last.op = "new" =>
                       ind = [kind |-> "Macd", signal |-> Sma_new(a[3]),
                              macd |-> Diff_new(Ema_new(a[1]), Ema_new(a[2]))]

C23_Witness ==
    /\ "ctor" \in DOMAIN Shapes[shape]
    /\ Shapes[shape].ctor = "Macd"
    /\ Shapes[shape].args = <<0, 0, 0>>
    /\ IsErr(ind)
    /\ ind.error = "InvalidRelation"
    /\ ind.lhs.value = 0

\* the ring of a ring-based indicator holds `period` elements when its
\* running state is Some and none when it is None
C24_RingLengths ==
    LET running(t) ==
            CASE t.kind \in {"Sma", "Vwma"} -> t.sum
              [] t.kind = "StandardDeviation" -> t.mean_sse
              [] OTHER -> t.current
        ringOK(t) == Len(t.ring) = IF IsSome(running(t)) THEN t.period ELSE 0
    IN /\ ind.kind \in {"Sma", "Max", "Min", "MaxIndex", "MinIndex",
                        "StandardDeviation", "Vwma"} => ringOK(ind)
       /\ ind.kind = "Stochastics" =>
              /\ ringOK(ind.min) /\ ringOK(ind.max) /\ ringOK(ind.slow_d)
              /\ ringOK(ind.d_numerator) /\ ringOK(ind.d_denominator)
       /\ ind.kind = "AroonIndicator" => (ringOK(ind.max_index) /\ ringOK(ind.min_index))
       /\ ind.kind = "BolingerBands" => ringOK(ind.sd)

\* C24: no next, current or reset on a constructed indicator fails: no call
\* panics, the rings keep their lengths, and the index MaxIndex and MinIndex
\* hold is below the length of the ring they index with it.
C24_Infallible ==
    /\ ~Panicked(ind)
    /\ C24_RingLengths
    /\ (ind.kind \in {"MaxIndex", "MinIndex"} /\ IsSome(ind.current)) =>
            ind.current[1] < Len(ind.ring)

C26_IteratorAdapter ==
    /\ [](ind.kind = "IndicatorIterator" =>
            /\ ind.inner = twin
            /\ Len(run) + Len(ind.input_iterator) = Len(prev)
            /\ \A j \in 1..Len(run) :
                   run[j].x = prev[j].x /\ run[j].o = Drive(New(shape), j).o
            /\ last.op = "iter" => last.out = last.twin)
    /\ [][ind.kind = "IndicatorIterator" =>
            IF Len(ind.input_iterator) = 0
            THEN last'.out = None /\ ind' = ind /\ run' = run
            ELSE /\ Len(run') = Len(run) + 1
                 /\ last'.out = Some(run'[Len(run')].o)
                 /\ ind'.input_iterator = Tail(ind.input_iterator)]_vars

C26_Witness ==
    /\ ind.kind = "IndicatorIterator"
    /\ ind.inner.kind = "Sma"
    /\ Len(prev) = 3
    /\ Len(run) = 3
    /\ run[3].o # run[2].o
    /\ last.op = "iter"
    /\ last.out = None

\* C27: IndicatorStream advances the indicator once per item the input
\* stream delivers, in the order of delivery: a poll that finds the input
\* Pending returns Pending and leaves the indicator as it is, a poll that
\* finds Ready(Some(x)) returns Ready(Some(indicator.next(x))), a poll that
\* finds Ready(None) returns Ready(None); however the Pending polls fall,
\* the outputs are those of the indicator advanced directly.
C27_StreamAdapter ==
    /\ [](ind.kind = "IndicatorStream" =>
            /\ ind.inner = twin
            /\ Len(run) + Len(ind.input_stream) = Len(prev)
            /\ \A j \in 1..Len(run) :
                   run[j].x = prev[j].x /\ run[j].o = Drive(New(shape), j).o
            /\ (last.op = "poll" /\ last.out.ready) => last.out.item = last.twin)
    /\ [][ind.kind = "IndicatorStream" =>
            \/ last'.out = [ready |-> FALSE] /\ ind' = ind /\ run' = run
            \/ /\ last'.out = [ready |-> TRUE, item |-> None]
               /\ Len(ind.input_stream) = 0 /\ ind' = ind /\ run' = run
            \/ /\ Len(ind.input_stream) > 0
               /\ Len(run') = Len(run) + 1
               /\ last'.out = [ready |-> TRUE, item |-> Some(run'[Len(run')].o)]
               /\ ind'.input_stream = Tail(ind.input_stream)]_vars

C27_Witness ==
    /\ ind.kind = "IndicatorStream"
    /\ ind.inner.kind = "Sma"
    /\ Len(prev) = 3
    /\ Len(run) = 2
    /\ run[2].o # run[1].o
    /\ last.op = "poll"
    /\ ~last.out.ready
    /\ Len(ind.input_stream) = 1

C30_IndexInRange ==
    LET i == ind.current[1]
        x(j) == InputOf(Shapes[shape], run[j].x)
    IN (ind.kind \in {"MaxIndex", "MinIndex"} /\ IsSome(ind.current)) =>
          /\ 0 <= i /\ i < ind.period
          /\ Len(ind.ring) = ind.period
          /\ ind.ring[i + 1] = IF i < Len(run) THEN x(Len(run) - i) ELSE x(1)
          /\ \A j \in 1..ind.period :
                 IF ind.kind = "MaxIndex" THEN ~flt(ind.ring[i + 1], ind.ring[j])
                                          ELSE ~flt(ind.ring[j], ind.ring[i + 1])
          /\ last.op = "next" => last.out = i


\* C31: when the extreme value occurs more than once in the window of
\* MaxIndex or MinIndex, the reported index is that of its most recent
\* occurrence: no element of the ring at a smaller position equals the
\* element at the reported position.
C31_MostRecentExtreme ==
    (ind.kind \in {"MaxIndex", "MinIndex"} /\ IsSome(ind.current)) =>
        /\ \A j \in 1..ind.current[1] : ~feq(ind.ring[j], ind.ring[ind.current[1] + 1])
        /\ last.op = "next" => last.out = ind.current[1]


\* C32: after every advance aroon_up and aroon_down of AroonIndicator are
\* within [0, 1], the subtraction period - index does not go below zero
\* because both indices are at most period, the first output after
\* construction or reset is (1, 1), and every output of AroonOscillator is
\* within [-1, 1].
C32_AroonRange ==
    LET unit(v) == fle(F(0), v) /\ fle(v, F(1))
    IN /\ New(shape).kind \in {"AroonIndicator", "AroonOscillator"} => ~Panicked(ind)
       /\ ind.kind = "AroonIndicator" =>
              /\ \A k \in 1..Len(run) : unit(run[k].o.aroon_up) /\ unit(run[k].o.aroon_down)
              /\ Len(run) >= 1 => run[1].o = [aroon_up |-> F(1), aroon_down |-> F(1)]
              /\ Len(run) >= 1 =>
                     /\ ind.max_index.current[1] <= ind.period
                     /\ ind.min_index.current[1] <= ind.period
                     /\ Current(ind) = Some(run[Len(run)].o)
       /\ ind.kind = "AroonOscillator" =>
              /\ \A k \in 1..Len(run) : fle(F(-1), run[k].o) /\ fle(run[k].o, F(1))
              /\ Len(run) >= 1 => run[1].o = F(0)


C34_StochasticsRange ==
    LET unit(v) == fle(F(0), v) /\ fle(v, F(1))
        half(v) == feq(v, <<1, 2>>)
        n == Len(run)
    IN ind.kind = "Stochastics" =>
          /\ \A j \in 1..n : unit(run[j].o.k) /\ unit(run[j].o.d) /\ unit(run[j].o.slow_d)
          /\ n >= 1 => (half(run[1].o.k) /\ half(run[1].o.d) /\ half(run[1].o.slow_d))
          /\ n >= 1 =>
                 /\ fle(ind.min.current[1], InputOf(Shapes[shape], run[n].x))
                 /\ fle(InputOf(Shapes[shape], run[n].x), ind.max.current[1])
                 /\ feq(ind.min.current[1], ind.max.current[1]) => half(run[n].o.k)
                 /\ feq(Sma_current(ind.d_denominator)[1], F(0)) => half(run[n].o.d)
                 /\ Current(ind) = Some(run[n].o)


C36_MatureMonotone ==
    /\ [](ind.kind = "Mature" =>
            /\ ind.cnt \in 0..(ind.period + 1)
            /\ \A k \in 1..Len(run) : \A j \in k..Len(run) :
                   IsSome(run[k].o) => IsSome(run[j].o)
            /\ (Len(run) >= 1 /\ IsSome(run[Len(run)].o)) =>
                   (ind.cnt = 0 /\ IsSome(Current(ind)))
            /\ ind.cnt = 1 <=>
                   (IsNone(Current(ind)) /\ IsSome(Next(ind, InputOf(Shapes[shape], 0)).o))
            /\ ind.cnt = 0 <=> IsSome(Current(ind)))
    /\ [][(ind.kind = "Mature" /\ last'.op # "reset") => ind'.cnt <= ind.cnt]_vars

C36_Witness ==
    /\ ind.kind = "Mature"
    /\ ind.period = 2
    /\ ind.cnt = 1
    /\ resets = 1
    /\ Len(prev) = 3 /\ IsSome(prev[3].o)
    /\ Len(run) = 2 /\ last.op = "next" /\ last.out = None


\* C37: after every advance of a Window of size N >= 1 the ring holds at
\* most N elements, all N slots of buf have been written by that advance and
\* every slot designates an element stored in the ring; slots that designate
\* cleared or evicted elements are never exposed: current() is None while
\* they exist, and whenever a view has been handed out its slots designate
\* elements stored in the ring.
C37_BufferValidity ==
    LET N == ind.window_size
        live == {VecDeque_cell(ind.ring, j) : j \in 0..(ind.ring.len - 1)}
        valid == \A i \in 1..N : ind.buf[i] \in live
    IN (ind.kind = "Window" /\ N >= 1) =>
          /\ ind.ring.len <= N
          /\ ~ind.is_first =>
                 /\ valid
                 /\ ind.buf = Window_update_window([ind EXCEPT !.buf = Fill(N, NullRef)]).buf
          /\ ind.is_first => Current(ind) = None
          /\ (Len(run) + Len(prev) >= 1) => valid

C39_BandsAverage ==
    ind.kind = "BolingerBands" =>
        \A k \in 1..Len(run) :
            LET o == run[k].o
            IN /\ feq(o.average, Drive(Sma_new(ind.sd.period), k).o)
               /\ feq(fsub(o.upper_bound, o.average), fsub(o.average, o.lower_bound))
               /\ feq(ind.multiplier, F(0)) =>
                      (feq(o.upper_bound, o.average) /\ feq(o.lower_bound, o.average))

====
